---- MODULE Spec2Model ----
(***************************************************************************)
(* Orchestration engine of calc_scrapper:                                  *)
(*   - the durable job store (db.fetchAndLockJob, updateJobProgress,       *)
(*     completeJob, failJob, clearStuckJobs) and the worker poll loop      *)
(*     (processNextJob), several worker processes sharing one store;       *)
(*   - the interactive admission queue (scrapeStreamController,            *)
(*     startScraping, processQueue).                                       *)
(* Time is counted in minutes.  Every await of the source is a point where *)
(* other processes and callbacks interleave, so every action below is the  *)
(* code between two awaits (one SQL statement or one event-loop turn).     *)
(***************************************************************************)
EXTENDS Integers, Sequences, FiniteSets, TLC

\* ---------------------------------------------------------------- bounds
NumJobs == 2
NumWorkers == 2
MaxTime == 31
MaxUnits == 1
NumRequests == 5
MaxInFlight == 2
MaxPhases == 2
MaxFailures == 3
NumExams == 2
NumItems == 1
MaxRuns == 2
NumYears == 2
NumSessions == 2
MaxSaves == 3
NumStatements == 3

\* ------------------------------------------------------ program constants
MAX_CONCURRENCY == 3
StuckMinutes == 30
maxDbRetries == 3

Jobs == 1..NumJobs
\* worker processes, and the invocations of processNextJob that may be in
\* progress at once (MaxInFlight slots for each process)
Procs == 1..NumWorkers
Workers == 1..(NumWorkers * MaxInFlight)
process(w) == ((w - 1) \div MaxInFlight) + 1
Requests == 1..NumRequests
NoJob == 0
NoWorker == 0
\* minutes that may pass between two steps (10 min, and 21 more make 31)
TickSteps == {10, 21}

VARIABLES
    \* --- the ImportJob table
    status,          \* committed status of each job row
    updatedAt,       \* committed "updatedAt" of each job row
    rowLock,         \* the fetch transaction holding the row lock, or NoWorker
    password,        \* "ok" when the stored credential decrypts, else "corrupt"
    now,             \* the database clock, in minutes
    \* --- one worker process each
    wpc,             \* position of each invocation inside processNextJob
    isWorkerRunning, \* the single-flight guard of each process
    tickDropped,     \* history: a poll tick hit the guard during the invocation
    job,             \* the job of the current / last processNextJob invocation
    txnStart,        \* NOW() of the open fetch transaction
    units,           \* units the running scrape() has gone through
    terminal,        \* terminal status this invocation wrote, or "none"
    fetched,         \* history: how many times fetchAndLockJob returned each job
    \* --- the interactive admission queue (one server process)
    activeScrapes,
    queue,
    rpc,             \* per request: "new", "queued", "running", "finished", "skipped"
    isClosed,        \* per request: the connection's close event has fired
    told,            \* history: <<request, position>> told to queued requests
    startSeq,        \* history: requests in the order they were started
    closedInQueue,   \* history: requests whose caller disconnected while queued
    \* --- one ScraperService run and its caller (a record, see NoRun)
    run,
    \* --- the unit / item loop of one scrape() and its callbacks (see NoExt)
    ext,
    \* --- the poll timer of each worker process and its stopWorkerLoop
    workerInterval,  \* per process: "set" or "null"
    stopAborted,     \* history: the invocation whose scraper stopWorkerLoop aborted
    \* --- the year loop of one scrape() (a record, see NoYears)
    yearLoop,
    \* --- the business tables written by db.saveScrapedQuestion (see NoStore)
    store

jobVars == <<status, updatedAt, rowLock, password, now>>
workerVars == <<wpc, isWorkerRunning, tickDropped, job, txnStart, units, terminal, fetched>>
loopVars == <<workerInterval, stopAborted>>
dataVars == <<yearLoop, store>>
runVars == <<run, ext, loopVars, dataVars>>
queueVars == <<activeScrapes, queue, rpc, isClosed, told, startSeq, closedInQueue>>
vars == <<jobVars, workerVars, queueVars, runVars>>

\* "createdAt" of the seeded rows: distinct, and not in id order
createdAt == [j \in Jobs |-> NumJobs + 1 - j]

\* ======================================================== the job store

\* db.fetchAndLockJob, the SELECT: WHERE status = 'PENDING' ORDER BY
\* "createdAt" ASC LIMIT 1 FOR UPDATE SKIP LOCKED.  The set is empty or holds
\* the one selected row.
newestFirst(j, k) == createdAt[j] >= createdAt[k]

\* ORDER BY "createdAt" ASC
oldestFirst(j, k) == createdAt[j] <= createdAt[k]

selectPendingIgnoringLocks(st, lock) ==
    LET cand == {j \in Jobs : st[j] = "PENDING"}
    IN {j \in cand : \A k \in cand : oldestFirst(j, k)}

selectPending(st, lock) ==
    LET cand == {j \in Jobs : st[j] = "PENDING" /\ lock[j] = NoWorker}
    IN {j \in cand : \A k \in cand : oldestFirst(j, k)}

\* db.clearStuckJobs, the WHERE clause
isStuckAtThreshold(j) == status[j] = "PROCESSING" /\ updatedAt[j] <= now - StuckMinutes

isStuck(j) == status[j] = "PROCESSING" /\ updatedAt[j] < now - StuckMinutes

\* decrypt(job.password): throws on a corrupted cipher text
decryptThrows(j) == password[j] = "corrupt"

\* a single-statement UPDATE ... WHERE id = $1 waits for a row lock held by
\* an open fetch transaction
rowFree(j) == rowLock[j] = NoWorker

\* =========================================================== processNextJob

\* if (isWorkerRunning) return;
singleFlightOff(p) == FALSE

singleFlightHeld(p) == isWorkerRunning[p]

\* finally { isWorkerRunning = false; }
keepGuard(p) == isWorkerRunning

releaseGuard(p) == [isWorkerRunning EXCEPT ![p] = FALSE]

\* processNextJob returns: its locals are gone and the guard is released
ReturnToIdle(w) ==
    /\ wpc' = [wpc EXCEPT ![w] = "idle"]
    /\ job' = [job EXCEPT ![w] = NoJob]
    /\ units' = [units EXCEPT ![w] = 0]
    /\ terminal' = [terminal EXCEPT ![w] = "none"]
    /\ txnStart' = [txnStart EXCEPT ![w] = 0]
    /\ isWorkerRunning' = releaseGuard(process(w))
    /\ tickDropped' = [tickDropped EXCEPT ![process(w)] = FALSE]

\* poll tick: if (isWorkerRunning) return; isWorkerRunning = true;
\* fetchAndLockJob() runs up to its first await (pool.connect).  The
\* invocation takes the first free invocation slot of its process.
Poll(w) ==
    /\ wpc[w] = "idle"
    /\ \A v \in Workers : (process(v) = process(w) /\ v < w) => wpc[v] \notin {"idle", "crashed"}
    /\ workerInterval[process(w)] = "set"
    /\ ~singleFlightHeld(process(w))
    /\ isWorkerRunning' = [isWorkerRunning EXCEPT ![process(w)] = TRUE]
    /\ wpc' = [wpc EXCEPT ![w] = "begin"]
    /\ job' = [job EXCEPT ![w] = NoJob]
    /\ terminal' = [terminal EXCEPT ![w] = "none"]
    /\ units' = [units EXCEPT ![w] = 0]
    /\ UNCHANGED <<jobVars, txnStart, fetched, tickDropped, queueVars, runVars>>

\* poll tick while an invocation is in progress: returns at once
PollBusy(p) ==
    /\ workerInterval[p] = "set"
    /\ singleFlightHeld(p)
    /\ \E w \in Workers : process(w) = p /\ wpc[w] \notin {"idle", "crashed"}
    /\ ~tickDropped[p]
    /\ tickDropped' = [tickDropped EXCEPT ![p] = TRUE]
    /\ UNCHANGED <<jobVars, wpc, isWorkerRunning, job, txnStart, units, terminal,
                   fetched, queueVars, runVars>>

\* BEGIN
FetchBegin(w) ==
    /\ wpc[w] = "begin"
    /\ txnStart' = [txnStart EXCEPT ![w] = now]
    /\ wpc' = [wpc EXCEPT ![w] = "select"]
    /\ UNCHANGED <<jobVars, isWorkerRunning, job, units, terminal, fetched,
                   tickDropped, queueVars, runVars>>

\* SELECT ... FOR UPDATE SKIP LOCKED
FetchSelect(w) ==
    /\ wpc[w] = "select"
    /\ LET rows == selectPending(status, rowLock)
       IN IF rows = {}
          THEN /\ wpc' = [wpc EXCEPT ![w] = "commitNone"]
               /\ UNCHANGED <<rowLock, job>>
          ELSE \E j \in rows :
               /\ rowLock' = [rowLock EXCEPT ![j] = w]
               /\ job' = [job EXCEPT ![w] = j]
               /\ wpc' = [wpc EXCEPT ![w] = "update"]
    /\ UNCHANGED <<status, updatedAt, password, now, isWorkerRunning, txnStart,
                   units, terminal, fetched, tickDropped, queueVars, runVars>>

\* rows.length === 0: COMMIT; return null; processNextJob returns through
\* its finally
FetchNone(w) ==
    /\ wpc[w] = "commitNone"
    /\ ReturnToIdle(w)
    /\ UNCHANGED <<jobVars, fetched, queueVars, runVars>>

\* UPDATE ... SET status = 'PROCESSING', "updatedAt" = NOW(): written inside
\* the transaction, invisible to the others until COMMIT
FetchUpdate(w) ==
    /\ wpc[w] = "update"
    /\ wpc' = [wpc EXCEPT ![w] = "commit"]
    /\ UNCHANGED <<jobVars, isWorkerRunning, job, txnStart, units, terminal,
                   fetched, tickDropped, queueVars, runVars>>

\* COMMIT; return updateResult.rows[0].  The row becomes PROCESSING for the
\* others; NOW() of the UPDATE is the start time of the transaction.
FetchCommit(w) ==
    /\ wpc[w] = "commit"
    /\ status' = [status EXCEPT ![job[w]] = "PROCESSING"]
    /\ updatedAt' = [updatedAt EXCEPT ![job[w]] = txnStart[w]]
    /\ rowLock' = [j \in Jobs |-> IF rowLock[j] = w THEN NoWorker ELSE rowLock[j]]
    /\ fetched' = [fetched EXCEPT ![job[w]] = @ + 1]
    /\ txnStart' = [txnStart EXCEPT ![w] = 0]
    /\ wpc' = [wpc EXCEPT ![w] = "fetched"]
    /\ UNCHANGED <<password, now, isWorkerRunning, job, units, terminal,
                   tickDropped, queueVars, runVars>>

\* a statement of the fetch fails: ROLLBACK; throw e; processNextJob's outer
\* catch logs it and the finally releases the guard
FetchError(w) ==
    /\ wpc[w] \in {"begin", "select", "update", "commit", "commitNone"}
    /\ rowLock' = [j \in Jobs |-> IF rowLock[j] = w THEN NoWorker ELSE rowLock[j]]
    /\ ReturnToIdle(w)
    /\ UNCHANGED <<status, updatedAt, password, now, fetched, queueVars, runVars>>

\* const password = decrypt(job.password); on a throw control goes to the
\* outer catch (console.error only) and the outer finally.  Otherwise the
\* state is built, the first log added and updateJobProgress is issued.
Decrypt(w) ==
    /\ wpc[w] = "fetched"
    /\ IF decryptThrows(job[w])
       THEN ReturnToIdle(w)
       ELSE /\ wpc' = [wpc EXCEPT ![w] = "initSave"]
            /\ UNCHANGED <<isWorkerRunning, job, txnStart, units, terminal, tickDropped>>
    /\ UNCHANGED <<jobVars, fetched, queueVars, runVars>>

\* db.updateJobProgress: UPDATE ... SET logs = $1, "updatedAt" = NOW() WHERE id = $2
updateJobProgress(j) ==
    /\ rowFree(j)
    /\ updatedAt' = [updatedAt EXCEPT ![j] = now]
    /\ UNCHANGED <<status, rowLock, password, now>>

\* await db.updateJobProgress(job.id, state); // Initial save
\* then getUserIgnoredExams and the call of scraper.scrape
InitSave(w) ==
    /\ wpc[w] = "initSave"
    /\ updateJobProgress(job[w])
    /\ wpc' = [wpc EXCEPT ![w] = "scrape"]
    /\ UNCHANGED <<isWorkerRunning, job, txnStart, units, terminal, fetched,
                   tickDropped, queueVars, runVars>>

\* scrape() goes through a unit that emits status events:
\* onStatus -> addLog -> db.updateJobProgress
ScrapeStatus(w) ==
    /\ wpc[w] = "scrape"
    /\ units[w] < MaxUnits
    /\ updateJobProgress(job[w])
    /\ units' = [units EXCEPT ![w] = @ + 1]
    /\ UNCHANGED <<wpc, isWorkerRunning, job, txnStart, terminal, fetched,
                   tickDropped, queueVars, runVars>>

\* scrape() goes through a unit that emits no event at all: the
\* environment filter (`continue` without onStatus) or an empty / expired
\* unit whose item buttons never show up
ScrapeQuiet(w) ==
    /\ wpc[w] = "scrape"
    /\ units[w] < MaxUnits
    /\ units' = [units EXCEPT ![w] = @ + 1]
    /\ UNCHANGED <<jobVars, wpc, isWorkerRunning, job, txnStart, terminal, fetched,
                   tickDropped, queueVars, runVars>>

\* db.completeJob / db.failJob: UPDATE ... SET status = $s, ... WHERE id = $2
setTerminal(j, s) ==
    /\ rowFree(j)
    /\ status' = [status EXCEPT ![j] = s]
    /\ updatedAt' = [updatedAt EXCEPT ![j] = now]
    /\ UNCHANGED <<rowLock, password, now>>

\* scrape() resolved: addLog('Finalizado com sucesso!'); await db.completeJob
CompleteJob(w) ==
    /\ wpc[w] = "scrape"
    /\ setTerminal(job[w], "COMPLETED")
    /\ terminal' = [terminal EXCEPT ![w] = "COMPLETED"]
    /\ wpc' = [wpc EXCEPT ![w] = "cleanup"]
    /\ UNCHANGED <<isWorkerRunning, job, txnStart, units, fetched, tickDropped,
                   queueVars, runVars>>

\* scrape() threw: catch (scraperError) { addLog(...); await db.failJob }
FailJob(w) ==
    /\ wpc[w] = "scrape"
    /\ setTerminal(job[w], "FAILED")
    /\ terminal' = [terminal EXCEPT ![w] = "FAILED"]
    /\ wpc' = [wpc EXCEPT ![w] = "cleanup"]
    /\ UNCHANGED <<isWorkerRunning, job, txnStart, units, fetched, tickDropped,
                   queueVars, runVars>>

\* inner finally (scraper.abort(); activeScraper = null) and outer finally
\* (isWorkerRunning = false)
Cleanup(w) ==
    /\ wpc[w] = "cleanup"
    /\ ReturnToIdle(w)
    /\ UNCHANGED <<jobVars, fetched, queueVars, runVars>>

\* the worker process dies with everything it was running; the server
\* aborts its open transaction
Crash(w) ==
    /\ wpc[w] \notin {"idle", "crashed"}
    /\ wpc' = [v \in Workers |-> IF process(v) = process(w) THEN "crashed" ELSE wpc[v]]
    /\ rowLock' = [j \in Jobs |->
                     IF rowLock[j] # NoWorker /\ process(rowLock[j]) = process(w)
                     THEN NoWorker ELSE rowLock[j]]
    /\ txnStart' = [v \in Workers |-> IF process(v) = process(w) THEN 0 ELSE txnStart[v]]
    /\ units' = [v \in Workers |-> IF process(v) = process(w) THEN 0 ELSE units[v]]
    /\ terminal' = [v \in Workers |-> IF process(v) = process(w) THEN "none" ELSE terminal[v]]
    /\ tickDropped' = [tickDropped EXCEPT ![process(w)] = FALSE]
    /\ UNCHANGED <<status, updatedAt, password, now, isWorkerRunning, job, fetched,
                   queueVars, runVars>>

\* db.clearStuckJobs, run by the supervisor interval
clearStuckJobsNoReset ==
    /\ \E j \in Jobs : isStuck(j)
    /\ UNCHANGED vars

clearStuckJobs ==
    /\ \E j \in Jobs : isStuck(j)
    /\ status' = [j \in Jobs |-> IF isStuck(j) THEN "PENDING" ELSE status[j]]
    /\ updatedAt' = [j \in Jobs |-> IF isStuck(j) THEN now ELSE updatedAt[j]]
    /\ UNCHANGED <<rowLock, password, now, workerVars, queueVars, runVars>>

\* time passes
Tick ==
    /\ \E d \in TickSteps :
        /\ now + d <= MaxTime
        /\ now' = now + d
    /\ UNCHANGED <<status, updatedAt, rowLock, password, workerVars, queueVars, runVars>>

\* activeScraper: set after the decrypt, cleared in the inner finally
activeScraper(p) ==
    {w \in Workers : process(w) = p /\ wpc[w] \in {"initSave", "scrape"}}

\* stopWorkerLoop: clearInterval(workerInterval); workerInterval = null; if
\* (activeScraper) await activeScraper.abort().  The abort itself is the
\* AbortCall of the run model; the scrape it hits ends by CompleteJob or
\* FailJob as before.
StopWorkerLoop(p) ==
    /\ workerInterval[p] = "set"
    /\ workerInterval' = [workerInterval EXCEPT ![p] = "null"]
    /\ stopAborted' = [stopAborted EXCEPT ![p] = activeScraper(p)]
    /\ UNCHANGED <<jobVars, workerVars, queueVars, run, ext, dataVars>>

WorkerStep(w) ==
    \/ Poll(w)
    \/ PollBusy(process(w))
    \/ FetchBegin(w)
    \/ FetchSelect(w)
    \/ FetchNone(w)
    \/ FetchUpdate(w)
    \/ FetchCommit(w)
    \/ FetchError(w)
    \/ Decrypt(w)
    \/ InitSave(w)
    \/ ScrapeStatus(w)
    \/ ScrapeQuiet(w)
    \/ CompleteJob(w)
    \/ FailJob(w)
    \/ Cleanup(w)
    \/ Crash(w)

InitJobs ==
    /\ status = [j \in Jobs |-> "PENDING"]
    /\ updatedAt = [j \in Jobs |-> 0]
    /\ rowLock = [j \in Jobs |-> NoWorker]
    /\ password \in {p \in [Jobs -> {"ok", "corrupt"}] :
                        Cardinality({j \in Jobs : p[j] = "corrupt"}) <= 1}
    /\ now = 0

InitWorkers ==
    /\ wpc = [w \in Workers |-> "idle"]
    /\ isWorkerRunning = [p \in Procs |-> FALSE]
    /\ tickDropped = [p \in Procs |-> FALSE]
    /\ job = [w \in Workers |-> NoJob]
    /\ txnStart = [w \in Workers |-> 0]
    /\ units = [w \in Workers |-> 0]
    /\ terminal = [w \in Workers |-> "none"]
    /\ fetched = [j \in Jobs |-> 0]

\* startWorkerLoop has run: workerInterval = setInterval(processNextJob, ...)
InitLoop ==
    /\ workerInterval = [p \in Procs |-> "set"]
    /\ stopAborted = [p \in Procs |-> {}]

\* The year loop of one scrape() call: `for (const year of yearsData)`.
\* A year's value is its index in yearsData; 0 is the placeholder option
\* ("SELECIONE ANO"), which yearsData does not hold.
NoYears ==
    [caller     |-> "none",
     pc         |-> "idle",   \* position inside the loop
     y          |-> 1,        \* index of `year` in yearsData
     selected   |-> 0,        \* value of select[name="ANO"] on the page
     isAborted  |-> FALSE,    \* this.isAborted
     error      |-> "none",   \* what scrape() throws: none, failure, cancelled
     events     |-> <<>>,     \* history: onStatus calls, [step |-> ., y |-> year]
     logTypes   |-> <<>>,     \* worker: type of each entry pushed to state.logs
     selects    |-> [y \in 1..NumYears |-> 0],
                              \* history: selectOption calls made for each year
     preselected |-> {},      \* history: years read as already selected
     failed     |-> {},       \* history: years whose re-read differed
     discovered |-> {}]       \* history: years whose exams were extracted

\* One pooled connection running db.saveScrapedQuestion: its position and
\* the rows its open transaction has written, invisible to the others until
\* COMMIT.
NoSession ==
    [pc            |-> "idle",
     call          |-> 0,       \* history: number of the call, from 1
     statement     |-> 0,       \* question.statement of the record
     questions     |-> {},      \* uncommitted "Question" rows
     alternatives  |-> {},      \* uncommitted "Alternative" rows
     comments      |-> {},      \* uncommitted "Comment" rows
     reputation    |-> 0]       \* uncommitted change of "User".reputation

\* The business tables of one user and the connections writing them.
NoStore ==
    [variant      |-> "db",     \* input: the copy of saveScrapedQuestion in use,
                                \* "db" (services/db.ts) or "part_003"
     questions    |-> {},       \* "Question" rows, [id, title, text]
     alternatives |-> {},       \* "Alternative" rows, by questionId (the rows of
                                \* one for loop stand as one)
     comments     |-> {},       \* "Comment" rows, by questionId
     reputation   |-> 0,        \* "User".reputation
     sess         |-> [s \in 1..NumSessions |-> NoSession],
     calls        |-> <<>>]     \* history, per call: [statement, seen, result,
                                \* returned, undone (reputation rolled back)]

InitData == yearLoop = NoYears /\ store = NoStore

InitQueue ==
    /\ activeScrapes = 0
    /\ queue = <<>>
    /\ rpc = [r \in Requests |-> "new"]
    /\ isClosed = [r \in Requests |-> FALSE]
    /\ told = <<>>
    /\ startSeq = <<>>
    /\ closedInQueue = {}

\* ================================================== the admission queue

\* if (activeScrapes >= MAX_CONCURRENCY) queue.push(...) else startScraping()
atCapacityOffByOne(a) == a > MAX_CONCURRENCY

atCapacity(a) == a >= MAX_CONCURRENCY

\* const position = queue.length, read right after the push
queuePositionZeroBased(q) == Len(q) - 1

queuePosition(q) == Len(q)

\* processQueue and startScraping call each other.  Both are evaluated on
\* (activeScrapes, queue); the result also lists the requests that were
\* started (activeScrapes++, scrape() called) and those that were skipped.
RECURSIVE processQueue(_, _)

startScrapingNoCloseCheck(r, a, q) ==
    [active |-> a + 1, queue |-> q, started |-> <<r>>, skipped |-> <<>>]

startScrapingNoReselect(r, a, q) ==
    IF isClosed[r]
    THEN [active |-> a, queue |-> q, started |-> <<>>, skipped |-> <<r>>]
    ELSE [active |-> a + 1, queue |-> q, started |-> <<r>>, skipped |-> <<>>]

\* startScraping, up to the first await of scraper.scrape
startScraping(r, a, q) ==
    IF isClosed[r]
    THEN LET res == processQueue(a, q)
         IN [res EXCEPT !.skipped = <<r>> \o @]
    ELSE [active |-> a + 1, queue |-> q, started |-> <<r>>, skipped |-> <<>>]

processQueueLifo(a, q) ==
    IF a < MAX_CONCURRENCY /\ Len(q) > 0
    THEN startScraping(q[Len(q)], a, SubSeq(q, 1, Len(q) - 1))
    ELSE [active |-> a, queue |-> q, started |-> <<>>, skipped |-> <<>>]

processQueueNoop(a, q) ==
    [active |-> a, queue |-> q, started |-> <<>>, skipped |-> <<>>]

processQueue(a, q) ==
    IF a < MAX_CONCURRENCY /\ Len(q) > 0
    THEN startScraping(Head(q), a, Tail(q))
    ELSE [active |-> a, queue |-> q, started |-> <<>>, skipped |-> <<>>]

\* the finally of startScraping: activeScrapes--; ...; processQueue()
finishScrapingNoDecrement(a, q) == processQueue(a, q)

finishScrapingNoRestart(a, q) ==
    [active |-> a - 1, queue |-> q, started |-> <<>>, skipped |-> <<>>]

finishScraping(a, q) == processQueue(a - 1, q)

InSeq(x, sq) == \E i \in 1..Len(sq) : sq[i] = x

\* the effect of a startScraping / processQueue result on the requests
applyResult(res) ==
    /\ activeScrapes' = res.active
    /\ queue' = res.queue
    /\ startSeq' = startSeq \o res.started

\* a request arrives: scrapeStreamController up to its end (Queue Logic).
\* Requests are numbered in the order of their arrival.
Arrive(r) ==
    /\ rpc[r] = "new"
    /\ \A x \in Requests : x < r => rpc[x] # "new"
    /\ IF atCapacity(activeScrapes)
       THEN /\ queue' = Append(queue, r)
            /\ told' = Append(told, <<r, queuePosition(Append(queue, r))>>)
            /\ rpc' = [rpc EXCEPT ![r] = "queued"]
            /\ UNCHANGED <<activeScrapes, startSeq>>
       ELSE LET res == startScraping(r, activeScrapes, queue)
            IN /\ applyResult(res)
               /\ rpc' = [x \in Requests |->
                            IF InSeq(x, res.started) THEN "running"
                            ELSE IF InSeq(x, res.skipped) THEN "skipped"
                            ELSE rpc[x]]
               /\ UNCHANGED told
    /\ UNCHANGED <<isClosed, closedInQueue, jobVars, workerVars, runVars>>

\* scraper.scrape of a running request settles (resolves or throws): the
\* terminal event is sent and the finally runs
Finish(r) ==
    /\ rpc[r] = "running"
    /\ LET res == finishScraping(activeScrapes, queue)
       IN /\ applyResult(res)
          /\ rpc' = [x \in Requests |->
                       IF x = r THEN "finished"
                       ELSE IF InSeq(x, res.started) THEN "running"
                       ELSE IF InSeq(x, res.skipped) THEN "skipped"
                       ELSE rpc[x]]
    /\ UNCHANGED <<isClosed, told, closedInQueue, jobVars, workerVars, runVars>>

\* req.on('close'): isClosed = true; clearInterval(heartbeat)
Disconnect(r) ==
    /\ rpc[r] \in {"queued", "running"}
    /\ ~isClosed[r]
    /\ isClosed' = [isClosed EXCEPT ![r] = TRUE]
    /\ closedInQueue' = IF rpc[r] = "queued" THEN closedInQueue \cup {r}
                        ELSE closedInQueue
    /\ UNCHANGED <<activeScrapes, queue, rpc, told, startSeq, jobVars, workerVars, runVars>>

\* ============================================ one scrape() run and its caller
\* A ScraperService object, the scrape() call made on it by processNextJob
\* ("worker") or by startScraping ("interactive"), and the abort() / close()
\* call that stopWorkerLoop or the connection's close listener may make
\* while the run is going on.
NoRun ==
    [caller         |-> "none",
     failsFirst     |-> 0,        \* input: the first failsFirst runs fail
     pc             |-> "idle",   \* position of the caller / of scrape()
     step           |-> 0,        \* phase / unit / item boundaries passed
     browser        |-> "null",   \* this.browser: "null" or "set"
     launched       |-> FALSE,    \* chromium.launch has resolved
     closeCalls     |-> 0,        \* history: browser.close() invocations
     isAborted      |-> FALSE,    \* this.isAborted
     stop           |-> "none",   \* the abort() / close() call: none, closing, done
     error          |-> "none",   \* what scrape() throws: none, failure, cancelled
     invocations    |-> 0,        \* history: calls of scrape()
     connected      |-> TRUE,     \* interactive: ~isClosed
     statusSent     |-> FALSE,    \* history: a status / question event was written
     terminalEvents |-> <<>>,     \* history: done / error events written
     lateEvents     |-> 0,        \* history: events written after a terminal one
     recorded       |-> "none",   \* worker: status written by completeJob / failJob
     jobStatus      |-> "PROCESSING",
     cancelledAt    |-> -1,       \* history: step at which the job was set FAILED
     heartbeat      |-> FALSE,    \* interactive: the keep-alive interval is set
     beatSent       |-> FALSE,    \* history: a keep-alive was written
     lateWrites     |-> 0,        \* history: writes to the stream after its close event
     stoppedIn      |-> "none"]   \* history: pc at which abort() / close() was called

\* The exam / question loop of one scrape() call and what the callbacks of
\* its caller do with the events ("worker": the durable progress payload of
\* processNextJob; "interactive": startScraping, which passes no onExamDone).
NoExt ==
    [caller       |-> "none",
     pc           |-> "idle",   \* position inside scrape()
     u            |-> 1,        \* exam of the loop, from 1
     i            |-> 1,        \* question of the exam, from 1
     reselects    |-> 0,        \* forced clicks made for the question so far
     isAborted    |-> FALSE,    \* this.isAborted
     grace        |-> FALSE,    \* the page operation pending when abort() was
                                \* called may still resolve
     error        |-> "none",   \* what scrape() throws: none, failure, cancelled
     kinds        |-> <<>>,     \* history: what each exam selected so far was
     events       |-> <<>>,     \* history: callback calls, [k |-> kind, u |-> exam]
     lateEmits    |-> 0,        \* history: onQuestion / onExamDone calls made after abort()
     found        |-> 0,        \* state.metrics.found
     imported     |-> 0,        \* state.metrics.imported
     skipped      |-> 0,        \* state.metrics.skipped
     xp           |-> 0,        \* state.metrics.xp
     errors       |-> 0,        \* error entries in state.logs
     logs         |-> 0,        \* entries added to state.logs by the callbacks
     ins          |-> <<>>,     \* per record: attempts of the insert and its state
     handled      |-> 0,        \* history: onQuestion invocations that are over
     examPending  |-> 0,        \* onExamDone invocations waiting for saveScrapeHistory
     examSaved    |-> 0,        \* history: onExamDone invocations that are over
     statusCount  |-> 0,        \* history: onStatus invocations
     writesIssued |-> 0,        \* history: updateJobProgress / completeJob / failJob calls
     stored       |-> [found |-> 0, logs |-> 0, status |-> "PROCESSING"],
                                \* the job row: logs column and status
     ordered      |-> TRUE,     \* input: each statement sent through the pool
                                \* reaches the row before the next one is sent
     inflight     |-> {},       \* payloads sent by updateJobProgress, not yet at the row
     terminal     |-> FALSE,    \* completeJob / failJob has written
     lateWrite    |-> FALSE,    \* history: a progress write landed after the terminal one
     history      |-> [u \in 1..NumExams |-> 0],
                                \* "ScrapeHistory" rows of the owner, per examId
     ignoredExams |-> {},       \* what getUserIgnoredExams returned to this run
     readOk       |-> TRUE,     \* history: that SELECT did not fail
     markedAtStart |-> {},      \* history: exams that had a row when the run began
     marked       |-> {},       \* history: exams whose row this run's onExamDone wrote
     runNo        |-> 1]        \* history: runs of processNextJob for the owner

InitRun == run = NoRun /\ ext = NoExt /\ InitLoop /\ InitData

\* sendEvent(event, data): if (isClosed) return; res.write(...).  The worker's
\* callbacks write no stream.
sendEvent(r) ==
    IF r.caller = "interactive" /\ r.connected
    THEN IF r.terminalEvents # <<>>
         THEN [r EXCEPT !.lateEvents = @ + 1]
         ELSE [r EXCEPT !.statusSent = TRUE]
    ELSE r

\* req.on('close', () => { isClosed = true; clearInterval(heartbeat); })
heartbeatKept(r) == r.heartbeat

heartbeatAfterClose(r) == FALSE

\* startScraping: sendEvent('done', ...) after scrape() resolved,
\* sendEvent('error', ...) in the catch
terminalEventAlwaysDone(err) == "done"

terminalEvent(err) == IF err = "none" THEN "done" ELSE "error"

\* processNextJob: completeJob after scrape() resolved, failJob in
\* catch (scraperError), whatever the error is
recordedStatus(err) == IF err = "none" THEN "COMPLETED" ELSE "FAILED"

\* checkActiveAbort: (await db.getJobStatus(job.id)) === 'FAILED'
checkActiveAbort(r) == r.jobStatus = "FAILED"

\* the run of the given number fails (times out on the site)
mustFail(r) == r.invocations <= r.failsFirst

\* the caller calls scraper.scrape(...): onStatus('INIT'), chromium.launch
\* (startScraping: if (isClosed) { processQueue(); return; })
StartScrape ==
    /\ run.pc = "idle"
    /\ run.caller = "interactive" => run.connected
    /\ run' = sendEvent([run EXCEPT !.pc = "launch", !.invocations = @ + 1])
    /\ UNCHANGED <<jobVars, workerVars, queueVars, ext, loopVars, dataVars>>

\* this.browser = await chromium.launch(...)
LaunchDone ==
    /\ run.pc = "launch"
    /\ run' = [run EXCEPT !.pc = "phase", !.browser = "set", !.launched = TRUE]
    /\ UNCHANGED <<jobVars, workerVars, queueVars, ext, loopVars, dataVars>>

\* one phase / unit / item of scrape(): the awaited page operation rejects
\* when the browser was closed under it or the site fails; at the boundary
\* `if (this.isAborted) throw new Error('Processo cancelado ...')`; else the
\* status / question callbacks are called.  After the last one
\* onStatus('DONE').
Phase ==
    /\ run.pc = "phase"
    /\ \/ /\ run.isAborted
          /\ run' = [run EXCEPT !.pc = "catch", !.error = "cancelled"]
       \/ /\ ~run.isAborted
          /\ run.closeCalls > 0 \/ mustFail(run)
          /\ run' = [run EXCEPT !.pc = "catch", !.error = "failure"]
       \/ /\ ~run.isAborted
          /\ run.closeCalls = 0
          /\ run.step < MaxPhases
          /\ run' = sendEvent([run EXCEPT !.step = @ + 1])
       \/ /\ ~run.isAborted
          /\ run.closeCalls = 0
          /\ ~mustFail(run)
          /\ run.step = MaxPhases
          /\ run' = sendEvent([run EXCEPT !.pc = "finally"])
    /\ UNCHANGED <<jobVars, workerVars, queueVars, ext, loopVars, dataVars>>

\* catch (error) { if (this.isAborted) throw new Error('Processo cancelado
\* ...'); throw error; }
Catch ==
    /\ run.pc = "catch"
    /\ run' = [run EXCEPT !.pc = "finally",
                          !.error = IF run.isAborted THEN "cancelled" ELSE @]
    /\ UNCHANGED <<jobVars, workerVars, queueVars, ext, loopVars, dataVars>>

\* finally { if (this.browser) { onStatus('CLEANUP'); await
\* this.browser.close(); ...
Finally ==
    /\ run.pc = "finally"
    /\ IF run.browser = "set"
       THEN run' = sendEvent([run EXCEPT !.pc = "closing", !.closeCalls = @ + 1])
       ELSE run' = [run EXCEPT !.pc = "settled"]
    /\ UNCHANGED <<jobVars, workerVars, queueVars, ext, loopVars, dataVars>>

\* ... this.browser = null; } } and scrape() settles
ClosingDone ==
    /\ run.pc = "closing"
    /\ run' = [run EXCEPT !.pc = "settled", !.browser = "null"]
    /\ UNCHANGED <<jobVars, workerVars, queueVars, ext, loopVars, dataVars>>

\* the caller's continuation.  startScraping: sendEvent('done' / 'error'),
\* finally { ...; if (!isClosed) res.end(); }.  processNextJob: completeJob
\* or failJob, finally { await scraper.abort(); activeScraper = null; }.
Settle ==
    /\ run.pc = "settled"
    /\ IF run.caller = "interactive"
       THEN run' = [run EXCEPT
                !.pc = "ended",
                !.heartbeat = FALSE,
                !.terminalEvents = IF run.connected
                                   THEN Append(@, terminalEvent(run.error))
                                   ELSE @]
       ELSE run' = [run EXCEPT
                !.pc = "ended",
                !.recorded = recordedStatus(run.error),
                !.jobStatus = recordedStatus(run.error),
                !.isAborted = TRUE,
                !.closeCalls = IF run.browser = "set" THEN @ + 1 ELSE @,
                !.browser = "null"]
    /\ UNCHANGED <<jobVars, workerVars, queueVars, ext, loopVars, dataVars>>

\* stopWorkerLoop: if (activeScraper) await activeScraper.abort();
\* abort(): this.isAborted = true; if (this.browser) { await
\* this.browser.close(); ...
AbortCall ==
    /\ run.caller = "worker"
    /\ run.pc \notin {"idle", "ended"}
    /\ run.stop = "none"
    /\ run' = [run EXCEPT
            !.isAborted = TRUE,
            !.stoppedIn = run.pc,
            !.stop = IF run.browser = "set" THEN "closing" ELSE "done",
            !.closeCalls = IF run.browser = "set" THEN @ + 1 ELSE @]
    /\ UNCHANGED <<jobVars, workerVars, queueVars, ext, loopVars, dataVars>>

\* req.on('close'): isClosed = true; closeListener: await scraper.close();
\* close(): if (this.browser) { await this.browser.close(); ...
\* Before startScraping has run (the request is queued) there is no
\* closeListener yet.
Disconnected ==
    /\ run.caller = "interactive"
    /\ run.pc # "ended"
    /\ run.connected
    /\ run' = [run EXCEPT
            !.connected = FALSE,
            !.heartbeat = heartbeatAfterClose(run),
            !.stoppedIn = run.pc,
            !.stop = IF run.pc = "idle" THEN @
                     ELSE IF run.browser = "set" THEN "closing" ELSE "done",
            !.closeCalls = IF run.pc # "idle" /\ run.browser = "set" THEN @ + 1 ELSE @]
    /\ UNCHANGED <<jobVars, workerVars, queueVars, ext, loopVars, dataVars>>

\* setInterval(() => res.write(': keepalive\n\n'), 15000)
Heartbeat ==
    /\ run.caller = "interactive"
    /\ run.heartbeat
    /\ run' = [run EXCEPT !.beatSent = TRUE,
                          !.lateWrites = IF run.connected THEN @ ELSE @ + 1]
    /\ UNCHANGED <<jobVars, workerVars, queueVars, ext, loopVars, dataVars>>

\* ... this.browser = null; } of abort() / close(), after its await
StopDone ==
    /\ run.stop = "closing"
    /\ run' = [run EXCEPT !.stop = "done", !.browser = "null"]
    /\ UNCHANGED <<jobVars, workerVars, queueVars, ext, loopVars, dataVars>>

\* another party sets the job's status to FAILED while the worker runs it
ExternalFail ==
    /\ run.caller = "worker"
    /\ run.pc \in {"launch", "phase"}
    /\ run.jobStatus = "PROCESSING"
    /\ run' = [run EXCEPT !.jobStatus = "FAILED", !.cancelledAt = run.step]
    /\ UNCHANGED <<jobVars, workerVars, queueVars, ext, loopVars, dataVars>>

InitRunOnly ==
    /\ InitJobs /\ InitWorkers /\ InitQueue
    /\ password = [j \in Jobs |-> "ok"]
    /\ \E c \in {"worker", "interactive"}, k \in 0..MaxFailures :
          run = [NoRun EXCEPT !.caller = c, !.failsFirst = k,
                              !.heartbeat = (c = "interactive")]
    /\ ext = NoExt
    /\ InitLoop
    /\ InitData

NextRun ==
    \/ StartScrape
    \/ LaunchDone
    \/ Phase
    \/ Catch
    \/ Finally
    \/ ClosingDone
    \/ Settle
    \/ AbortCall
    \/ Disconnected
    \/ Heartbeat
    \/ StopDone
    \/ ExternalFail

SpecRun == InitRunOnly /\ [][NextRun]_vars

\* ================================= the exam / question loop and its callbacks
ExamKinds == {"env", "ignored", "empty", "items"}

\* events that are status events (onStatus); "record" is onQuestion and
\* "unitDone" is onExamDone
StatusKinds == {"SKIPPED", "INFO", "PROCESSING", "EXAM_DONE", "DONE", "CLEANUP"}

\* JSON.stringify(logsData) at the time of the call
snapshot(r) == [found |-> r.found, logs |-> r.logs]

\* UPDATE "ImportJob" SET logs = $1::jsonb ... WHERE id = $2 reaches the row
land(r, payload) ==
    [r EXCEPT !.stored.found = payload.found,
              !.stored.logs = payload.logs,
              !.lateWrite = @ \/ r.terminal]

\* db.updateJobProgress(job.id, state): pool.query on a Pool of max 10; the
\* callbacks that call it are not awaited by scrape()
issueWrite(r) ==
    IF r.ordered
    THEN [land(r, snapshot(r)) EXCEPT !.writesIssued = @ + 1]
    ELSE [r EXCEPT !.inflight = @ \cup {snapshot(r)}, !.writesIssued = @ + 1]

\* state.logs.push({...})
addLog(r) == [r EXCEPT !.logs = @ + 1]

\* onStatus(step, message) of processNextJob: addLog; if (step === 'SKIPPED')
\* skipped++; await db.updateJobProgress(...).  startScraping: sendEvent.
onStatus(r, step) ==
    LET e == [r EXCEPT !.events = Append(@, [k |-> step, u |-> r.u])]
    IN IF r.caller = "worker"
       THEN issueWrite([addLog(e) EXCEPT !.statusCount = @ + 1,
                                 !.skipped = IF step = "SKIPPED" THEN @ + 1 ELSE @])
       ELSE e

\* onQuestion(questionObj): the call returns at its first await
\* (saveScrapedQuestion), scrape() does not wait for it
onQuestion(r) ==
    LET e == [r EXCEPT !.events = Append(@, [k |-> "record", u |-> r.u]),
                       !.lateEmits = IF r.isAborted THEN @ + 1 ELSE @]
    IN IF r.caller = "worker"
       THEN [e EXCEPT !.ins = Append(@, [attempts |-> 0, st |-> "pending"])]
       ELSE [e EXCEPT !.handled = @ + 1]

\* if (onExamDone) { onStatus('EXAM_DONE', ...); onExamDone({year, examId,
\* examName}); }  The handler returns at `await db.saveScrapeHistory`.
examDoneTwice(r) ==
    LET e == onStatus(r, "EXAM_DONE")
    IN [e EXCEPT !.events = @ \o <<[k |-> "unitDone", u |-> r.u], [k |-> "unitDone", u |-> r.u]>>,
                 !.examPending = @ + 2]

examDone(r) ==
    IF r.caller = "worker"
    THEN LET e == onStatus(r, "EXAM_DONE")
         IN [e EXCEPT !.events = Append(@, [k |-> "unitDone", u |-> r.u]),
                      !.lateEmits = IF r.isAborted THEN @ + 1 ELSE @,
                      !.examPending = @ + 1]
    ELSE r

\* throw inside the try: catch (error) { if (this.isAborted) throw new
\* Error('Processo cancelado ...'); throw error; }
throws(r, err) ==
    [r EXCEPT !.pc = "finally", !.error = IF r.isAborted THEN "cancelled" ELSE err]

\* exam.text of the exam with value (examId) u
examText(u) == u

\* exam.text && ignoredExams?.includes(exam.text); startScraping passes no
\* ignoredExams
isIgnored(r, u) == r.caller = "worker" /\ examText(u) \in r.ignoredExams

\* for (const exam of availableExams) { if (this.isAborted) throw ...;
\* after the last exam of the last year: onStatus('DONE')
ExamStart ==
    /\ ext.pc = "examStart"
    /\ ext' = IF ext.u > NumExams
              THEN [onStatus(ext, "DONE") EXCEPT !.pc = "finally"]
              ELSE IF ext.isAborted
                   THEN throws(ext, "cancelled")
                   ELSE [ext EXCEPT !.pc = "examSelect"]
    /\ UNCHANGED <<jobVars, workerVars, queueVars, run, loopVars, dataVars>>

\* the exam is selected (awaits), then: the environment filter (`continue`),
\* the ignoredExams filter (onStatus('SKIPPED'); continue), the wait for the
\* first question button (catch: continue), onStatus('INFO', ...).  After
\* abort() the selection that was pending may still resolve; the wait that
\* follows it is rejected and caught like an empty exam.
ExamSelect ==
    /\ ext.pc = "examSelect"
    /\ \/ \E kind \in ExamKinds :
            /\ ~ext.isAborted \/ (ext.grace /\ kind # "items")
            /\ kind = "ignored" => isIgnored(ext, ext.u)
            /\ kind \in {"empty", "items"} => ~isIgnored(ext, ext.u)
            /\ LET r == [ext EXCEPT !.kinds = Append(@, kind), !.grace = FALSE]
                   next == [r EXCEPT !.u = @ + 1, !.pc = "examStart"]
               IN ext' = CASE kind = "env" -> next
                           [] kind = "ignored" ->
                                  [onStatus(r, "SKIPPED") EXCEPT !.u = @ + 1, !.pc = "examStart"]
                           [] kind = "empty" -> next
                           [] kind = "items" ->
                                  [onStatus(r, "INFO") EXCEPT !.i = 1, !.pc = "itemStart"]
       \/ /\ ext.isAborted
          /\ ext' = throws([ext EXCEPT !.grace = FALSE], "failure")
    /\ UNCHANGED <<jobVars, workerVars, queueVars, run, loopVars, dataVars>>

\* for (let i = 0; i < totalQuestions; i++) { if (this.isAborted) throw ...;
\* onStatus('PROCESSING', ...)
ItemStart ==
    /\ ext.pc = "itemStart"
    /\ ext' = IF ext.isAborted
              THEN throws(ext, "cancelled")
              ELSE [onStatus(ext, "PROCESSING") EXCEPT !.pc = "itemWork", !.reselects = 0]
    /\ UNCHANGED <<jobVars, workerVars, queueVars, run, loopVars, dataVars>>

\* the click and `statementEl.waitFor({state: 'visible', timeout: 15000})`.
\* Visible: the extraction of the question goes on, which may time out, up
\* to `if (this.isAborted) throw ...` before questionObj is built.  Not
\* visible: catch (e) { await button.click({force: true}); ... }
ItemWork ==
    /\ ext.pc = "itemWork"
    /\ \/ ext' = throws(ext, "failure")
       \/ /\ ~ext.isAborted
          /\ \/ ext' = [ext EXCEPT !.pc = "itemImages"]
             \/ ext' = [ext EXCEPT !.pc = "itemRetry", !.reselects = @ + 1]
    /\ UNCHANGED <<jobVars, workerVars, queueVars, run, loopVars, dataVars>>

\* the second statementEl.waitFor of the catch block is not inside a try
secondFailureRetried(r) == [r EXCEPT !.reselects = @ + 1]

secondFailure(r) == throws(r, "failure")

\* after the forced click: await statementEl.waitFor({state: 'visible',
\* timeout: 10000}); then the extraction goes on as after a first success
ItemRetry ==
    /\ ext.pc = "itemRetry"
    /\ \/ ext' = secondFailure(ext)
       \/ /\ ~ext.isAborted
          /\ ext' = [ext EXCEPT !.pc = "itemImages"]
    /\ UNCHANGED <<jobVars, workerVars, queueVars, run, loopVars, dataVars>>

\* const images = await ...evaluateAll(...); onQuestion(questionObj); and at
\* the end of the loop the unit-done block.  No isAborted check follows the
\* await.
ItemImages ==
    /\ ext.pc = "itemImages"
    /\ \/ /\ ~ext.isAborted \/ ext.grace
          /\ LET r == onQuestion([ext EXCEPT !.grace = FALSE])
             IN ext' = IF ext.i < NumItems
                       THEN [r EXCEPT !.i = @ + 1, !.pc = "itemStart"]
                       ELSE [examDone(r) EXCEPT !.u = @ + 1, !.pc = "examStart"]
       \/ /\ ext.isAborted
          /\ ext' = throws([ext EXCEPT !.grace = FALSE], "failure")
    /\ UNCHANGED <<jobVars, workerVars, queueVars, run, loopVars, dataVars>>

\* finally { if (this.browser) { onStatus('CLEANUP', ...); await
\* this.browser.close(); ... } }
ExtFinally ==
    /\ ext.pc = "finally"
    /\ ext' = [onStatus(ext, "CLEANUP") EXCEPT !.pc = "closing"]
    /\ UNCHANGED <<jobVars, workerVars, queueVars, run, loopVars, dataVars>>

\* scrape() settles and processNextJob goes on: addLog; await
\* db.completeJob(job.id, state) or, in the catch, db.failJob(job.id, state)
ExtSettle ==
    /\ ext.pc = "closing"
    /\ ext' = IF ext.caller = "worker"
              THEN [addLog(ext) EXCEPT !.pc = "ended",
                                       !.terminal = TRUE,
                                       !.writesIssued = @ + 1,
                                       !.stored = [found |-> ext.found,
                                                   logs |-> ext.logs + 1,
                                                   status |-> recordedStatus(ext.error)]]
              ELSE [ext EXCEPT !.pc = "ended"]
    /\ UNCHANGED <<jobVars, workerVars, queueVars, run, loopVars, dataVars>>

\* if (dbRetries >= maxDbRetries) throw error;
giveUpLate(attempts) == attempts > maxDbRetries

giveUp(attempts) == attempts >= maxDbRetries

\* if (state.metrics.found % 2 === 0) await db.updateJobProgress(...)
persistAlways(found) == TRUE

persistEvery(found) == found % 2 = 0

\* one attempt of db.saveScrapedQuestion inside onQuestion's retry loop.
\* Saved: found++, imported++, xp += 10, addLog, progress write on every
\* second one.  Failed for the last time: the outer catch adds an error log.
InsertAttempt(k) ==
    /\ k \in 1..Len(ext.ins)
    /\ ext.ins[k].st = "pending"
    /\ LET n == ext.ins[k].attempts + 1
       IN \/ LET r == [addLog(ext) EXCEPT !.ins[k] = [attempts |-> n, st |-> "saved"],
                                  !.found = @ + 1,
                                  !.imported = @ + 1,
                                  !.xp = @ + 10,
                                  !.handled = @ + 1]
             IN ext' = IF persistEvery(r.found) THEN issueWrite(r) ELSE r
          \/ ext' = IF giveUp(n)
                    THEN [addLog(ext) EXCEPT !.ins[k] = [attempts |-> n, st |-> "gaveup"],
                                     !.errors = @ + 1,
                                     !.handled = @ + 1]
                    ELSE [ext EXCEPT !.ins[k] = [attempts |-> n, st |-> "pending"]]
    /\ UNCHANGED <<jobVars, workerVars, queueVars, run, loopVars, dataVars>>

\* the exam of the oldest onExamDone invocation that is still waiting
pendingExam(r) ==
    SelectSeq(r.events, LAMBDA e : e.k = "unitDone")[r.examSaved + 1].u

\* INSERT INTO "ScrapeHistory" ... ON CONFLICT ("userId", "examId") DO NOTHING
saveScrapeHistoryNoConflict(h, u) == [h EXCEPT ![u] = @ + 1]

saveScrapeHistory(h, u) == [h EXCEPT ![u] = IF @ = 0 THEN 1 ELSE @]

\* SELECT "examName" FROM "ScrapeHistory" WHERE "userId" = $1
getUserIgnoredExams(h) == {examText(u) : u \in {x \in DOMAIN h : h[x] > 0}}

\* onExamDone: `await db.saveScrapeHistory(...)`, which logs and swallows an
\* error of its INSERT; then addLog; await db.updateJobProgress(...)
ExamSaved ==
    /\ ext.examPending > 0
    /\ LET u == pendingExam(ext)
           r == [addLog(ext) EXCEPT !.examPending = @ - 1, !.examSaved = @ + 1]
       IN \/ ext' = issueWrite([r EXCEPT !.history = saveScrapeHistory(@, u),
                                         !.marked = @ \cup {u}])
          \/ ext' = issueWrite(r)
    /\ UNCHANGED <<jobVars, workerVars, queueVars, run, loopVars, dataVars>>

\* stopWorkerLoop: await activeScraper.abort() -> this.isAborted = true and
\* the browser starts closing
ExtAbort ==
    /\ ext.caller = "worker"
    /\ ext.pc \in {"examStart", "examSelect", "itemStart", "itemWork", "itemRetry", "itemImages",
                   "finally", "closing"}
    /\ ~ext.isAborted
    /\ ext' = [ext EXCEPT !.isAborted = TRUE,
                          !.grace = ext.pc \in {"examSelect", "itemImages"}]
    /\ UNCHANGED <<jobVars, workerVars, queueVars, run, loopVars, dataVars>>

InitExtOnly ==
    /\ InitJobs /\ InitWorkers /\ InitQueue
    /\ password = [j \in Jobs |-> "ok"]
    /\ run = NoRun
    /\ InitLoop
    /\ InitData
    /\ \E c \in {"worker", "interactive"}, done \in SUBSET (1..NumExams) :
          LET h == [u \in 1..NumExams |-> IF u \in done THEN 1 ELSE 0]
          IN /\ c = "interactive" => done = {}
             /\ ext = [NoExt EXCEPT !.caller = c, !.pc = "examStart",
                                    !.history = h,
                                    !.markedAtStart = done,
                                    !.ignoredExams = getUserIgnoredExams(h)]

NextExt ==
    \/ ExamStart
    \/ ExamSelect
    \/ ItemStart
    \/ ItemWork
    \/ ItemRetry
    \/ ItemImages
    \/ ExtFinally
    \/ ExtSettle
    \/ \E k \in 1..(NumExams * NumItems) : InsertAttempt(k)
    \/ ExamSaved
    \/ ExtAbort

SpecExt == InitExtOnly /\ [][NextExt]_vars

\* ---- one worker run whose UPDATEs may overtake each other: the run of an
\* owner whose exams all have their ScrapeHistory row
\* an UPDATE sent by updateJobProgress reaches the row
WriteLands ==
    /\ \E payload \in ext.inflight :
          ext' = [land(ext, payload) EXCEPT !.inflight = @ \ {payload}]
    /\ UNCHANGED <<jobVars, workerVars, queueVars, run, loopVars, dataVars>>

InitLog ==
    /\ InitJobs /\ InitWorkers /\ InitQueue
    /\ password = [j \in Jobs |-> "ok"]
    /\ run = NoRun
    /\ InitLoop
    /\ InitData
    /\ LET h == [u \in 1..NumExams |-> 1]
       IN ext = [NoExt EXCEPT !.caller = "worker", !.pc = "examStart",
                              !.ordered = FALSE,
                              !.history = h,
                              !.markedAtStart = 1..NumExams,
                              !.ignoredExams = getUserIgnoredExams(h)]

NextLog ==
    \/ ExamStart
    \/ ExamSelect
    \/ ExtFinally
    \/ ExtSettle
    \/ ExtAbort
    \/ WriteLands

SpecLog == InitLog /\ [][NextLog]_vars

\* ---- several runs of processNextJob for one owner, one after the other
\* the worker process dies during a run: its callbacks die with it and the
\* job row keeps the payload written last
ExtCrash ==
    /\ ext.caller = "worker"
    /\ ext.pc \notin {"idle", "ended", "crashed"}
    /\ ext' = [ext EXCEPT !.pc = "crashed",
                          !.examPending = 0,
                          !.ins = [k \in DOMAIN @ |->
                                     IF @[k].st = "pending"
                                     THEN [@[k] EXCEPT !.st = "lost"] ELSE @[k]]]
    /\ UNCHANGED <<jobVars, workerVars, queueVars, run, loopVars, dataVars>>

\* const state: LogsData = { logs: [], metrics: { found: 0, imported: 0,
\* skipped: 0, xp: 0 } }
metricsFromPayload(r) ==
    [found |-> r.stored.found, imported |-> r.stored.found, skipped |-> 0,
     xp |-> 10 * r.stored.found]

freshMetrics(r) == [found |-> 0, imported |-> 0, skipped |-> 0, xp |-> 0]

\* the next processNextJob run for the owner (the same job after
\* clearStuckJobs, or another job of the owner), started when the callbacks
\* of the run before are over: fetchAndLockJob and the fresh state
NextJob ==
    /\ ext.caller = "worker"
    /\ ext.pc \in {"ended", "crashed"}
    /\ ext.runNo < MaxRuns
    /\ ext.examPending = 0
    /\ \A k \in 1..Len(ext.ins) : ext.ins[k].st # "pending"
    /\ LET m == freshMetrics(ext)
       IN ext' = [NoExt EXCEPT !.caller = "worker",
                               !.pc = "initSave",
                               !.found = m.found,
                               !.imported = m.imported,
                               !.skipped = m.skipped,
                               !.xp = m.xp,
                               !.stored = [found |-> ext.stored.found,
                                           logs |-> ext.stored.logs,
                                           status |-> "PROCESSING"],
                               !.history = ext.history,
                               !.runNo = ext.runNo + 1]
    /\ UNCHANGED <<jobVars, workerVars, queueVars, run, loopVars, dataVars>>

\* await db.updateJobProgress(job.id, state); // Initial save
\* const ignoredExams = await db.getUserIgnoredExams(job.userId), which
\* returns [] when its SELECT fails; then scraper.scrape({...})
InitialSave ==
    /\ ext.pc = "initSave"
    /\ \E ok \in BOOLEAN :
          ext' = [ext EXCEPT !.pc = "examStart",
                             !.stored.found = ext.found,
                             !.stored.logs = ext.logs,
                             !.markedAtStart = {u \in 1..NumExams : ext.history[u] > 0},
                             !.ignoredExams = IF ok THEN getUserIgnoredExams(ext.history)
                                              ELSE {},
                             !.readOk = ok]
    /\ UNCHANGED <<jobVars, workerVars, queueVars, run, loopVars, dataVars>>

InitResume ==
    /\ InitJobs /\ InitWorkers /\ InitQueue
    /\ password = [j \in Jobs |-> "ok"]
    /\ run = NoRun
    /\ InitLoop
    /\ InitData
    /\ ext = [NoExt EXCEPT !.caller = "worker", !.pc = "initSave"]

NextResume ==
    \/ ExamStart
    \/ ExamSelect
    \/ ItemStart
    \/ ItemWork
    \/ ItemRetry
    \/ ItemImages
    \/ ExtFinally
    \/ ExtSettle
    \/ \E k \in 1..(NumExams * NumItems) : InsertAttempt(k)
    \/ ExamSaved
    \/ ExtCrash
    \/ NextJob
    \/ InitialSave

SpecResume == InitResume /\ [][NextResume]_vars


\* ============================================= the year loop of scrape()
YearSteps == {"PROCESSING", "ERROR", "FOUND", "DONE", "CLEANUP"}

\* type.toLowerCase()
toLowerCase(type) ==
    CASE type = "PROCESSING" -> "processing"
      [] type = "ERROR" -> "error"
      [] type = "FOUND" -> "found"
      [] type = "DONE" -> "done"
      [] type = "CLEANUP" -> "cleanup"
      [] type = "SKIPPED" -> "skipped"
      [] type = "INIT" -> "init"
      [] OTHER -> type

\* addLog: let mappedType = type.toLowerCase(); the two includes() tests
mappedType(type) ==
    LET lower == toLowerCase(type)
    IN IF lower \in {"processing", "init", "navigate", "login", "analyzing", "cleanup"}
       THEN "info"
       ELSE IF lower \in {"found", "exam_done", "done"}
            THEN "success"
            ELSE lower

\* onStatus(step, message) called from the year loop.  processNextJob:
\* addLog(message, step).  startScraping: sendEvent('status', {step, message}).
yearStatus(r, step) ==
    LET e == [r EXCEPT !.events = Append(@, [step |-> step, y |-> r.y])]
    IN IF r.caller = "worker"
       THEN [e EXCEPT !.logTypes = Append(@, mappedType(step))]
       ELSE e

\* a throw inside the try of scrape(): catch (error) { if (this.isAborted)
\* throw new Error('Processo cancelado ...'); throw error; }
yearThrows(r, err) ==
    [r EXCEPT !.pc = "finally", !.error = IF r.isAborted THEN "cancelled" ELSE err]

\* for (const year of yearsData) { if (this.isAborted) throw ...;
\* onStatus('PROCESSING', ...); currentYearValue = await ...inputValue();
\* if (currentYearValue !== year.value) ...   After the last year
\* onStatus('DONE').
YearStart ==
    /\ yearLoop.pc = "yearStart"
    /\ IF yearLoop.y > NumYears
       THEN yearLoop' = yearStatus([yearLoop EXCEPT !.pc = "finally"], "DONE")
       ELSE IF yearLoop.isAborted
            THEN yearLoop' = yearThrows(yearLoop, "cancelled")
            ELSE LET r == yearStatus(yearLoop, "PROCESSING")
                 IN IF yearLoop.selected # yearLoop.y
                    THEN yearLoop' = [r EXCEPT !.pc = "yearSelect"]
                    ELSE yearLoop' = [r EXCEPT !.pc = "yearVerify",
                                               !.preselected = @ \cup {yearLoop.y}]
    /\ UNCHANGED <<jobVars, workerVars, queueVars, run, ext, loopVars, store>>

\* await Promise.all([waitForResponse(...).catch(...), waitForLoadState(
\* 'networkidle'), selectOption(year.value)]); await waitForTimeout(5000).
\* The control ends up holding the year or some other option; or the
\* Promise.all rejects.
YearSelect ==
    /\ yearLoop.pc = "yearSelect"
    /\ \/ \E v \in 0..NumYears :
             yearLoop' = [yearLoop EXCEPT !.pc = "yearVerify",
                                          !.selected = v,
                                          !.selects[yearLoop.y] = @ + 1]
       \/ yearLoop' = yearThrows([yearLoop EXCEPT !.selects[yearLoop.y] = @ + 1], "failure")
    /\ UNCHANGED <<jobVars, workerVars, queueVars, run, ext, loopVars, store>>

\* if (verifiedYear !== year.value) { onStatus('ERROR', ...); continue; }
verificationFailedExtracts(r) ==
    [yearStatus(r, "ERROR") EXCEPT !.pc = "yearExams", !.failed = @ \cup {r.y}]

verificationFailed(r) ==
    [yearStatus(r, "ERROR") EXCEPT !.pc = "yearStart", !.y = @ + 1,
                                   !.failed = @ \cup {r.y}]

\* const verifiedYear = await ...inputValue(); the test on it
YearVerify ==
    /\ yearLoop.pc = "yearVerify"
    /\ \/ /\ yearLoop.selected # yearLoop.y
          /\ yearLoop' = verificationFailed(yearLoop)
       \/ /\ yearLoop.selected = yearLoop.y
          /\ yearLoop' = [yearLoop EXCEPT !.pc = "yearExams"]
       \/ /\ yearLoop.isAborted
          /\ yearLoop' = yearThrows(yearLoop, "cancelled")
    /\ UNCHANGED <<jobVars, workerVars, queueVars, run, ext, loopVars, store>>

\* the rest of the loop body: the exams of the selected year are read from
\* select[name="PROVA"] (onStatus('FOUND') when there are any) and gone
\* through, see ExamStart .. ItemImages; the body ends or an operation of it
\* throws.
YearExams ==
    /\ yearLoop.pc = "yearExams"
    /\ \E any \in BOOLEAN :
          LET r == [yearLoop EXCEPT !.discovered = @ \cup {yearLoop.y}]
              f == IF any THEN yearStatus(r, "FOUND") ELSE r
          IN \/ yearLoop' = [f EXCEPT !.pc = "yearStart", !.y = @ + 1]
             \/ yearLoop' = yearThrows(f, "failure")
    /\ UNCHANGED <<jobVars, workerVars, queueVars, run, ext, loopVars, store>>

\* finally { if (this.browser) { onStatus('CLEANUP', ...); ... } }
YearFinally ==
    /\ yearLoop.pc = "finally"
    /\ yearLoop' = yearStatus([yearLoop EXCEPT !.pc = "ended"], "CLEANUP")
    /\ UNCHANGED <<jobVars, workerVars, queueVars, run, ext, loopVars, store>>

\* abort() / close() called during the loop: this.isAborted = true, the
\* browser is closed under the page operation in progress
YearAbort ==
    /\ yearLoop.pc \in {"yearStart", "yearSelect", "yearVerify", "yearExams"}
    /\ ~yearLoop.isAborted
    /\ yearLoop' = [yearLoop EXCEPT !.isAborted = TRUE]
    /\ UNCHANGED <<jobVars, workerVars, queueVars, run, ext, loopVars, store>>

\* scrape() has read yearsData; the page shows the placeholder or one of
\* the years
InitYear ==
    /\ InitJobs /\ InitWorkers /\ InitQueue
    /\ password = [j \in Jobs |-> "ok"]
    /\ run = NoRun /\ ext = NoExt /\ InitLoop
    /\ store = NoStore
    /\ \E c \in {"worker", "interactive"}, v \in 0..NumYears :
          yearLoop = [NoYears EXCEPT !.caller = c, !.pc = "yearStart", !.selected = v]

NextYear ==
    \/ YearStart
    \/ YearSelect
    \/ YearVerify
    \/ YearExams
    \/ YearFinally
    \/ YearAbort

SpecYear == InitYear /\ [][NextYear]_vars

\* ================================================= db.saveScrapedQuestion
\* Texts are numbers: 2k is a trimmed text and 2k + 1 the same text with
\* white space around it; texts 4k .. 4k + 3 begin with the same 150
\* characters once cleaned.
Sessions == 1..NumSessions
Statements == 1..NumStatements

\* String.prototype.trim and SQL TRIM on a text without inner difference
trim(t) == 2 * (t \div 2)

\* questionData.body.replace(/[\s_*#\-`~]/g, '') and the REGEXP_REPLACE of
\* the query
cleanBody(t) == t \div 2

\* generateTitle(question.statement): the first 150 characters of the
\* cleaned statement
generateTitle(t) == t \div 4

\* formatQuestionBody(statement, images) of a record without images
\* (images.length = 0): the statement as it is
formatQuestionBody(t) == t

\* question.justification of the record with the given statement: blank
\* for the first one
justification(t) == IF t = 1 THEN "" ELSE "text"

\* mappedQuestion of onQuestion
questionData(t) ==
    [title |-> generateTitle(t), body |-> formatQuestionBody(t),
     justification |-> justification(t)]

\* 1.5. Check if Question already exists: the SELECT of each copy, over the
\* committed rows (the transaction has inserted none itself yet)
existingQuestionNever(q, d) == {}

existingQuestion(q, d) ==
    IF q.variant = "db"
    THEN {r \in q.questions : \/ trim(r.text) = trim(d.body)
                              \/ r.title = d.title
                              \/ cleanBody(r.text) = cleanBody(d.body)}
    ELSE {r \in q.questions : r.text = d.body}

\* the row of INSERT INTO "Question": db.ts stores title.trim() and
\* body.trim(), part_003 the title and the body as given (a title made by
\* generateTitle has no white space around it)
questionRow(q, id, d) ==
    [id |-> id, title |-> d.title,
     text |-> IF q.variant = "db" THEN trim(d.body) ELSE d.body]

\* COMMIT: the rows of the transaction become rows of the tables
commit(q, s) ==
    [q EXCEPT !.questions = @ \cup q.sess[s].questions,
              !.alternatives = @ \cup q.sess[s].alternatives,
              !.comments = @ \cup q.sess[s].comments,
              !.reputation = @ + q.sess[s].reputation,
              !.sess[s] = NoSession]

\* ROLLBACK: they are dropped
rollback(q, s) == [q EXCEPT !.sess[s] = NoSession]

\* the call of a session ends with the given result
returns(q, s, result, id) ==
    [q EXCEPT !.calls[q.sess[s].call].result = result,
              !.calls[q.sess[s].call].returned = id]

\* saveScrapedQuestion(userId, questionData): pool.connect, BEGIN, the
\* Subject is resolved
SaveBegin(s) ==
    /\ store.sess[s].pc = "idle"
    /\ Len(store.calls) < MaxSaves
    /\ \E t \in Statements :
          store' = [store EXCEPT
              !.sess[s] = [NoSession EXCEPT !.pc = "check",
                                            !.call = Len(store.calls) + 1,
                                            !.statement = t],
              !.calls = Append(@, [statement |-> t, seen |-> {},
                                   result |-> "open", returned |-> 0,
                                   undone |-> 0])]
    /\ UNCHANGED <<jobVars, workerVars, queueVars, run, ext, loopVars, yearLoop>>

\* the existence SELECT; if (rows.length > 0) { ROLLBACK; return rows[0].id }
SaveCheck(s) ==
    /\ store.sess[s].pc = "check"
    /\ LET c == store.sess[s].call
           found == existingQuestion(store, questionData(store.sess[s].statement))
           q == [store EXCEPT !.calls[c].seen = {r.id : r \in store.questions}]
       IN IF found # {}
          THEN \E r \in found : store' = rollback(returns(q, s, "existing", r.id), s)
          ELSE store' = [q EXCEPT !.sess[s].pc = "insert"]
    /\ UNCHANGED <<jobVars, workerVars, queueVars, run, ext, loopVars, yearLoop>>

\* 2. Insert Question under a new id, 3. Insert Alternatives, 4. Insert
\* Comment when the justification is not blank: statements on rows that
\* only this transaction sees
SaveInsert(s) ==
    /\ store.sess[s].pc = "insert"
    /\ LET d == questionData(store.sess[s].statement)
       IN store' = [store EXCEPT
              !.sess[s].pc = "reputation",
              !.sess[s].questions = {questionRow(store, store.sess[s].call, d)},
              !.sess[s].alternatives = {store.sess[s].call},
              !.sess[s].comments = IF d.justification # ""
                                   THEN {store.sess[s].call} ELSE {}]
    /\ UNCHANGED <<jobVars, workerVars, queueVars, run, ext, loopVars, yearLoop>>

\* 5. UPDATE "User" SET reputation = reputation + 10: waits for the row
\* lock while another transaction has updated the row and is still open
SaveReputation(s) ==
    /\ store.sess[s].pc = "reputation"
    /\ \A o \in Sessions : store.sess[o].reputation = 0
    /\ store' = [store EXCEPT !.sess[s].pc = "commit", !.sess[s].reputation = 10]
    /\ UNCHANGED <<jobVars, workerVars, queueVars, run, ext, loopVars, yearLoop>>

\* COMMIT; return questionId
SaveCommit(s) ==
    /\ store.sess[s].pc = "commit"
    /\ store' = commit(returns(store, s, "inserted", store.sess[s].call), s)
    /\ UNCHANGED <<jobVars, workerVars, queueVars, run, ext, loopVars, yearLoop>>

\* a statement of the transaction fails: catch (e) { ROLLBACK; throw e }
SaveFail(s) ==
    /\ store.sess[s].pc # "idle"
    /\ store' = rollback([returns(store, s, "failed", 0) EXCEPT
                             !.calls[store.sess[s].call].undone = store.sess[s].reputation], s)
    /\ UNCHANGED <<jobVars, workerVars, queueVars, run, ext, loopVars, yearLoop>>

InitStore ==
    /\ InitJobs /\ InitWorkers /\ InitQueue
    /\ password = [j \in Jobs |-> "ok"]
    /\ run = NoRun /\ ext = NoExt /\ InitLoop
    /\ yearLoop = NoYears
    /\ \E v \in {"db", "part_003"} : store = [NoStore EXCEPT !.variant = v]

NextSave ==
    \E s \in Sessions :
        \/ SaveBegin(s)
        \/ SaveCheck(s)
        \/ SaveInsert(s)
        \/ SaveReputation(s)
        \/ SaveCommit(s)
        \/ SaveFail(s)

SpecSave == InitStore /\ [][NextSave]_vars

Init == InitJobs /\ InitWorkers /\ InitQueue /\ InitRun



\* workers and the supervisor sweep against one store
Next ==
    \/ \E w \in Workers : WorkerStep(w)
    \/ clearStuckJobs
    \/ Tick

Spec == Init /\ [][Next]_vars

\* the interactive endpoint of one server process
NextQueue ==
    \E r \in Requests :
        \/ Arrive(r)
        \/ Finish(r)
        \/ Disconnect(r)

InitQueueOnly ==
    /\ Init
    /\ password = [j \in Jobs |-> "ok"]

SpecQueue == InitQueueOnly /\ [][NextQueue]_vars

\* concurrent callers of fetchAndLockJob against the seeded store, no sweep
NextFetch == \E w \in Workers : WorkerStep(w)

SpecFetch == Init /\ [][NextFetch]_vars

\* ---- worker processes that may be told to stop (the shutdown handler)
NextStop ==
    \/ \E w \in Workers : WorkerStep(w)
    \/ \E p \in Procs : StopWorkerLoop(p)

SpecStop == Init /\ [][NextStop]_vars

\* ------------------------------------------------- recovery after a crash
\* The store right after a worker process died in the middle of a job: the
\* process had fetched the oldest row and sent its first progress update;
\* the row is PROCESSING and nobody is working on it.
oldestJob == CHOOSE j \in Jobs : \A k \in Jobs : oldestFirst(j, k)

InitRecover ==
    /\ status = [j \in Jobs |-> IF j = oldestJob THEN "PROCESSING" ELSE "PENDING"]
    /\ updatedAt = [j \in Jobs |-> 0]
    /\ rowLock = [j \in Jobs |-> NoWorker]
    /\ password = [j \in Jobs |-> "ok"]
    /\ now = 0
    /\ wpc = [w \in Workers |-> IF process(w) = 1 THEN "crashed" ELSE "idle"]
    /\ isWorkerRunning = [p \in Procs |-> p = 1]
    /\ tickDropped = [p \in Procs |-> FALSE]
    /\ job = [w \in Workers |-> IF w = 1 THEN oldestJob ELSE NoJob]
    /\ txnStart = [w \in Workers |-> 0]
    /\ units = [w \in Workers |-> 0]
    /\ terminal = [w \in Workers |-> "none"]
    /\ fetched = [j \in Jobs |-> IF j = oldestJob THEN 1 ELSE 0]
    /\ InitQueue
    /\ InitRun

\* the invocations of the processes that stay alive, with a store that
\* answers every statement
LiveStep(w) ==
    \/ Poll(w)
    \/ FetchBegin(w)
    \/ FetchSelect(w)
    \/ FetchNone(w)
    \/ FetchUpdate(w)
    \/ FetchCommit(w)
    \/ Decrypt(w)
    \/ InitSave(w)
    \/ ScrapeStatus(w)
    \/ ScrapeQuiet(w)
    \/ CompleteJob(w)
    \/ FailJob(w)
    \/ Cleanup(w)

\* the live processes, the supervisor interval and the clock
NextRecover ==
    \/ \E w \in Workers : LiveStep(w)
    \/ clearStuckJobs
    \/ Tick

SpecRecover == InitRecover /\ [][NextRecover]_vars

\* setInterval(clearStuckJobs, 1h) keeps firing, time keeps passing, and
\* every live process keeps running its poll loop
\* (setInterval(processNextJob, POLL_INTERVAL_MS)) and what it started
SpecRecoverFair ==
    /\ SpecRecover
    /\ WF_vars(Tick)
    /\ WF_vars(clearStuckJobs)
    /\ \A p \in Procs : WF_vars(\E w \in Workers : process(w) = p /\ LiveStep(w))

\* the same endpoint when every running session eventually settles
SpecQueueFair ==
    /\ InitQueueOnly
    /\ [][NextQueue]_vars
    /\ \A r \in Requests : WF_vars(Finish(r))

\* ================================================================ claims

Pos(x, sq) == CHOOSE i \in 1..Len(sq) : sq[i] = x
Running == {r \in Requests : rpc[r] = "running"}
WasQueued(r) == \E i \in 1..Len(told) : told[i][1] = r
RECURSIVE SumFetched(_)
SumFetched(S) == IF S = {} THEN 0
                 ELSE LET j == CHOOSE x \in S : TRUE
                      IN fetched[j] + SumFetched(S \ {j})

\* C1: with any number of concurrent fetchAndLockJob callers against a store
\* of N Pending jobs no job is returned twice, and at most N jobs are
\* returned in all.
C1_NoJobReturnedTwice ==
    /\ \A j \in Jobs : fetched[j] <= 1
    /\ SumFetched(Jobs) <= NumJobs
    /\ \A w1, w2 \in Workers :
         (w1 # w2 /\ wpc[w1] = "fetched" /\ wpc[w2] = "fetched") => job[w1] # job[w2]

\* two callers hold a returned job at the same time and every job was returned
C1_Witness ==
    /\ \A j \in Jobs : fetched[j] = 1
    /\ \E w1, w2 \in Workers : w1 # w2 /\ wpc[w1] = "fetched" /\ wpc[w2] = "fetched"

\* C2: a job's status changes only along PENDING->PROCESSING,
\* PROCESSING->COMPLETED, PROCESSING->FAILED and PROCESSING->PENDING; a
\* COMPLETED or FAILED job never changes again and a PENDING job never
\* jumps to COMPLETED or FAILED.
LegalEdges == {<<"PENDING", "PROCESSING">>, <<"PROCESSING", "COMPLETED">>,
               <<"PROCESSING", "FAILED">>, <<"PROCESSING", "PENDING">>}

C2_OnlyLegalTransitions ==
    [][\A j \in Jobs : status'[j] # status[j] => <<status[j], status'[j]>> \in LegalEdges]_vars

\* C3: the number of interactive sessions running at the same time never
\* exceeds MAX_CONCURRENCY.
C3_BoundedSessions ==
    /\ Cardinality(Running) <= MAX_CONCURRENCY
    /\ activeScrapes = Cardinality(Running)

\* the bound is reached, a request waits, and sessions have already ended
C3_Witness ==
    /\ Cardinality(Running) = MAX_CONCURRENCY
    /\ queue # <<>>
    /\ \E r \in Requests : rpc[r] = "finished"
    /\ \E r \in Running : isClosed[r]

\* C4: queued requests are started in the order in which they were queued.
C4_Fifo ==
    \A a, b \in 1..Len(told) :
        (a < b /\ InSeq(told[a][1], startSeq) /\ InSeq(told[b][1], startSeq))
            => Pos(told[a][1], startSeq) < Pos(told[b][1], startSeq)

\* two requests that waited at the same time have both been started
C4_Witness ==
    \E a, b \in 1..Len(told) :
        /\ a < b
        /\ told[b][2] > 1
        /\ InSeq(told[a][1], startSeq)
        /\ InSeq(told[b][1], startSeq)

\* C5: if every running session eventually finishes, every queued request
\* whose caller stays connected is eventually started.
C5_QueuedEventuallyStarted ==
    \A r \in Requests :
        (rpc[r] = "queued") ~> (rpc[r] \in {"running", "finished"} \/ isClosed[r])

\* a request that waited behind another one runs with its caller connected
C5_Witness ==
    \E r \in Running :
        /\ ~isClosed[r]
        /\ \E i \in 1..Len(told) : told[i][1] = r /\ told[i][2] = 2

\* C6 as stated: the positions told to successive queued requests are
\* 1-based and strictly increasing.
C6_StrictlyIncreasingPositions ==
    /\ \A a \in 1..Len(told) : told[a][2] >= 1
    /\ \A a, b \in 1..Len(told) : a < b => told[a][2] < told[b][2]

\* C6 amended: the position told to a request arriving at the bound is its
\* 1-based index in the waiting list at that moment, i.e. the number of
\* requests waiting before its arrival plus one.
C6_PositionIsIndex ==
    [][\A r \in Requests :
          (rpc[r] = "new" /\ rpc'[r] = "queued") =>
              /\ told' = Append(told, <<r, Len(queue) + 1>>)
              /\ Len(queue') = Len(queue) + 1
              /\ queue'[Len(queue) + 1] = r]_vars

\* a queued request was told a position that an earlier one was told too
C6_Witness ==
    \E a, b \in 1..Len(told) : a < b /\ told[a][2] >= told[b][2]

\* C7: a queued request whose caller disconnects before it is started never
\* begins execution and the active count is never incremented for it.
C7_DisconnectedNeverRuns ==
    /\ \A r \in closedInQueue : rpc[r] \in {"queued", "skipped"} /\ ~InSeq(r, startSeq)
    /\ activeScrapes = Len(startSeq) - Cardinality({r \in Requests : rpc[r] = "finished"})

\* a disconnected queued request was taken from the waiting list
C7_Witness == \E r \in closedInQueue : rpc[r] = "skipped"

\* C8: when a disconnected request is taken from the head of the waiting
\* list it is skipped and the next still-connected request, if any, is
\* started in the same step.
LiveQueued == SelectSeq(queue, LAMBDA x : ~isClosed[x])

C8_SkipSelectsNext ==
    [][(\E r \in Requests : rpc[r] = "queued" /\ rpc'[r] = "skipped") =>
          IF LiveQueued = <<>>
          THEN queue' = <<>> /\ startSeq' = startSeq
          ELSE /\ startSeq' = Append(startSeq, Head(LiveQueued))
               /\ rpc'[Head(LiveQueued)] = "running"
               /\ activeScrapes' = MAX_CONCURRENCY]_vars

\* a request queued behind a skipped one is running
C8_Witness ==
    \E r, r2 \in Requests :
        /\ rpc[r] = "skipped"
        /\ r < r2
        /\ WasQueued(r2)
        /\ rpc[r2] = "running"

\* C9 as stated: on every completion, the early abandonment of a queued
\* task included, the active count is decremented and the head of the
\* waiting list, if any, is started.
Completing == {r \in Requests : \/ rpc[r] = "running" /\ rpc'[r] = "finished"
                                \/ rpc[r] = "queued" /\ rpc'[r] = "skipped"}
Finishing == {r \in Requests : rpc[r] = "running" /\ rpc'[r] = "finished"}
\* executions of activeScrapes-- in the step
Decrements == activeScrapes + (Len(startSeq') - Len(startSeq)) - activeScrapes'

C9_DecrementAndStartHead ==
    [][Completing # {} =>
          /\ Decrements = Cardinality(Completing)
          /\ queue # <<>> => rpc'[Head(queue)] = "running"]_vars

\* C9 amended: when a started task settles the active count is decremented
\* once and the first waiting request whose caller is still connected, if
\* any, is started, the disconnected ones ahead of it being dropped; the
\* abandonment of a queued task decrements nothing.
C9_DecrementOncePerFinish ==
    [][Completing # {} =>
          /\ Decrements = Cardinality(Finishing)
          /\ Cardinality(Finishing) = 1
          /\ IF LiveQueued = <<>>
             THEN /\ queue' = <<>>
                  /\ activeScrapes' = activeScrapes - 1
             ELSE /\ rpc'[Head(LiveQueued)] = "running"
                  /\ activeScrapes' = activeScrapes
                  /\ \A i \in 1..Len(queue) :
                        rpc'[queue[i]] = IF i < Pos(Head(LiveQueued), queue) THEN "skipped"
                                         ELSE IF i = Pos(Head(LiveQueued), queue) THEN "running"
                                         ELSE "queued"]_vars

\* a task settled, a disconnected one was dropped and a waiting one started
C9_Witness ==
    /\ \E r \in Requests : rpc[r] = "finished"
    /\ \E r \in Requests : rpc[r] = "skipped"
    /\ \E r \in Running : WasQueued(r)
    /\ activeScrapes < MAX_CONCURRENCY

\* C10: every job fetchAndLockJob returned to a worker that does not crash
\* is given a terminal status by that worker before the invocation ends.
C10_TerminalStatusPersisted ==
    [][\A w \in Workers :
          (wpc[w] \in {"fetched", "initSave", "scrape", "cleanup"} /\ wpc'[w] = "idle")
              => terminal[w] \in {"COMPLETED", "FAILED"}]_vars

\* ----------------------------------------------------------------- C12
InFlight(p) == {w \in Workers : process(w) = p /\ wpc[w] \notin {"idle", "crashed"}}

\* C12: a worker process never has more than one processNextJob invocation
\* in progress, and a poll tick that fires while one is in progress fetches
\* nothing and changes no job.
C12_SingleFlight ==
    /\ [](\A p \in Procs : Cardinality(InFlight(p)) <= 1)
    /\ [][\A p \in Procs :
            (~tickDropped[p] /\ tickDropped'[p])
                => UNCHANGED <<jobVars, wpc, job, txnStart, fetched>>]_vars

C12_Witness ==
    \E p \in Procs :
        /\ tickDropped[p]
        /\ \E w \in InFlight(p) : wpc[w] = "scrape"

\* ----------------------------------------------------------------- C13
\* C13: whenever no processNextJob invocation of a process is in progress,
\* its single-flight guard is released, whatever way the last invocation
\* ended, so the next poll tick of the process can fetch.
C13_GuardReleased ==
    \A p \in Procs :
        (\A w \in Workers : process(w) = p => wpc[w] = "idle")
            => (~isWorkerRunning[p] /\ ENABLED Poll(CHOOSE w \in Workers :
                    process(w) = p /\ \A v \in Workers : process(v) = p => w <= v))

\* invocations have ended with a completed job and with a decrypt exception
\* (the job it fetched is still PROCESSING), and every process is idle
C13_Witness ==
    /\ \A w \in Workers : wpc[w] = "idle"
    /\ \A p \in Procs : ~isWorkerRunning[p]
    /\ \E j \in Jobs : status[j] = "COMPLETED"
    /\ \E k \in Jobs : status[k] = "PROCESSING" /\ fetched[k] >= 1

\* ----------------------------------------------------------------- C20
InFetch(w) == wpc[w] \in {"begin", "select", "update", "commit", "commitNone"}

\* C20: the SELECT of fetchAndLockJob takes the oldest PENDING row that no
\* concurrent fetch has locked, and the COMMIT leaves exactly that row
\* PROCESSING and returns it; with no PENDING row the fetch returns none;
\* a fetch that returns none or fails changes no job's status and keeps no
\* lock.
C20_FetchOldestUnlocked ==
    [][\A w \in Workers :
        /\ (wpc[w] = "select" /\ wpc'[w] = "update")
              => /\ status[job'[w]] = "PENDING"
                 /\ rowLock[job'[w]] = NoWorker
                 /\ \A k \in Jobs :
                       (status[k] = "PENDING" /\ rowLock[k] = NoWorker)
                           => createdAt[job'[w]] <= createdAt[k]
                 /\ status' = status
        /\ (wpc[w] = "commit" /\ wpc'[w] = "fetched")
              => /\ job'[w] = job[w]
                 /\ status[job[w]] = "PENDING"
                 /\ status' = [status EXCEPT ![job[w]] = "PROCESSING"]
        /\ (wpc[w] = "select" /\ wpc'[w] \notin {"select", "crashed", "idle"}
                /\ \A k \in Jobs : status[k] # "PENDING")
              => (wpc'[w] = "commitNone" /\ job'[w] = NoJob /\ UNCHANGED jobVars)
        /\ (InFetch(w) /\ wpc'[w] = "idle")
              => /\ status' = status
                 /\ updatedAt' = updatedAt
                 /\ job'[w] = NoJob
                 /\ \A j \in Jobs : rowLock'[j] # w]_vars

\* two fetches are open at once: the second skipped the row the first had
\* locked and took the next oldest one
C20_Witness ==
    \E w1, w2 \in Workers :
        /\ wpc[w1] = "commit" /\ wpc[w2] = "update"
        /\ job[w1] # job[w2]
        /\ createdAt[job[w1]] < createdAt[job[w2]]

\* ----------------------------------------------------------------- C18
\* C18: a step of the sweep turns into PENDING (and stamps) every job that
\* is PROCESSING and was last updated more than StuckMinutes ago, and only
\* those: a PROCESSING job updated more recently and every PENDING,
\* COMPLETED or FAILED job keeps its status and its updatedAt.
C18_SweepExactlyStuck ==
    [][(\E j \in Jobs : status[j] = "PROCESSING" /\ status'[j] = "PENDING")
          => \A j \in Jobs :
                IF status[j] = "PROCESSING" /\ now - updatedAt[j] > StuckMinutes
                THEN status'[j] = "PENDING"
                ELSE status'[j] = status[j] /\ updatedAt'[j] = updatedAt[j]]_vars

\* the sweep has just returned a job that was 31 minutes old while another
\* job, PROCESSING and updated 10 minutes ago, stayed as it was
C18_Witness ==
    \E j, k \in Jobs :
        /\ status[j] = "PENDING" /\ fetched[j] >= 1 /\ updatedAt[j] = now
        /\ status[k] = "PROCESSING" /\ now - updatedAt[k] = 10

\* ----------------------------------------------------------------- C19
\* the job is PROCESSING, the process that fetched it is dead and no live
\* invocation holds it
Orphan(j) ==
    /\ status[j] = "PROCESSING"
    /\ \E w \in Workers : wpc[w] = "crashed" /\ job[w] = j
    /\ \A w \in Workers : wpc[w] \notin {"crashed", "idle"} => job[w] # j

\* fetchAndLockJob of a live process has returned the job again
Reclaimed(j) ==
    /\ fetched[j] >= 2
    /\ \E w \in Workers : wpc[w] = "fetched" /\ job[w] = j

\* the modelled clock has stopped before the job was old enough to be swept
ClockOut(j) ==
    /\ status[j] = "PROCESSING"
    /\ now - updatedAt[j] <= StuckMinutes
    /\ \A d \in TickSteps : now + d > MaxTime

\* C19: with the sweep, the clock and the poll loop of a live worker
\* scheduled fairly, a job left PROCESSING by a crashed worker is eventually
\* PENDING again and is eventually returned again by fetchAndLockJob (as
\* long as the modelled clock reaches the sweep threshold).
C19_CrashRecovery ==
    \A j \in Jobs :
        /\ Orphan(j) ~> (status[j] = "PENDING" \/ ClockOut(j))
        /\ Orphan(j) ~> (Reclaimed(j) \/ ClockOut(j))

C19_Witness ==
    \E j \in Jobs :
        /\ Reclaimed(j)
        /\ \E v \in Workers : wpc[v] = "crashed" /\ job[v] = j

\* ----------------------------------------------------------------- C11
\* C11: once an interactive run whose caller stayed connected is over,
\* exactly one terminal event has been written, `done` if scrape() resolved
\* and `error` if it threw; a connected caller is never sent two terminal
\* events nor any event after a terminal one.
C11_OneTerminalEvent ==
    (run.caller = "interactive" /\ run.connected)
        => /\ Len(run.terminalEvents) <= 1
           /\ run.lateEvents = 0
           /\ run.pc = "ended"
                 => /\ Len(run.terminalEvents) = 1
                    /\ run.terminalEvents[1] = "done" <=> run.error = "none"
                    /\ run.terminalEvents[1] = "error" <=> run.error # "none"

\* a connected caller got status events and then `error` for a run that threw
C11_Witness ==
    /\ run.caller = "interactive" /\ run.connected
    /\ run.pc = "ended"
    /\ run.statusSent
    /\ run.error = "failure"
    /\ run.terminalEvents = <<"error">>

\* ----------------------------------------------------------------- C14
\* C14: browser.close() is never invoked twice on the session of a run, and
\* once a run that launched a browser is over it has been invoked exactly
\* once, abort() / close() calls made during the run included.
C14_ReleasedExactlyOnce ==
    run.launched
        => /\ run.closeCalls <= 1
           /\ (run.pc = "ended" /\ run.stop # "closing") => run.closeCalls = 1

\* ----------------------------------------------------------------- C15
\* C15: a worker run that ended by a cancellation it observed is not
\* recorded with the status an ordinary failure is recorded with.
C15_CancelledNotFailed ==
    (run.caller = "worker" /\ run.pc = "ended" /\ run.error = "cancelled")
        => run.recorded # recordedStatus("failure")

\* ----------------------------------------------------------------- C16
\* C16: a worker run whose job was set to FAILED by another party, and that
\* passed a boundary after that, ends as cancelled and does not overwrite
\* the job with COMPLETED.
C16_ExternalFailObserved ==
    (/\ run.caller = "worker"
     /\ run.pc = "ended"
     /\ run.cancelledAt >= 0
     /\ run.step > run.cancelledAt)
        => (run.error = "cancelled" /\ run.jobStatus # "COMPLETED")

\* ----------------------------------------------------------------- C17
\* C17: when nothing stops the run from outside, a run that fails its first
\* k < 3 times ends in success after k + 1 calls of scrape(), and one that
\* keeps failing ends in failure after 3 calls.
C17_RetriedUpToThreeTimes ==
    (run.pc = "ended" /\ run.stop = "none" /\ (run.caller = "interactive" => run.connected))
        => IF run.failsFirst < 3
           THEN run.error = "none" /\ run.invocations = run.failsFirst + 1
           ELSE run.error = "failure" /\ run.invocations = 3

\* ----------------------------------------------------------------- C25
\* an invocation of a live process is between the return of fetchAndLockJob
\* and its last write for the job
Processing(w) == wpc[w] \in {"fetched", "initSave", "scrape"}

\* C25: no two invocations of live worker processes are processing the same
\* job at the same time, the stuck-job sweep running alongside.
C25_NoJobOnTwoWorkers ==
    \A w1, w2 \in Workers :
        (w1 # w2 /\ Processing(w1) /\ Processing(w2)) => job[w1] # job[w2]

\* ----------------------------------------------------------------- C22
\* C22: nothing is written to the stream of an interactive caller after the
\* close event of its connection, and the keep-alive interval is cleared.
C22_SilentAfterClose ==
    /\ run.lateWrites = 0
    /\ (run.caller = "interactive" /\ ~run.connected) => ~run.heartbeat

\* the caller got events and keep-alives, disconnected during the run, and
\* the run went on to its end
C22_Witness ==
    /\ run.caller = "interactive" /\ ~run.connected
    /\ run.statusSent /\ run.beatSent
    /\ run.stoppedIn = "launch"
    /\ run.pc = "ended"
    /\ run.terminalEvents = <<>>

\* ----------------------------------------------------------------- C27
\* C27: a worker run on which abort() was called while scrape() was in
\* progress does not end with scrape() resolved and the job COMPLETED.
C27_AbortedNeverSucceeds ==
    (/\ run.caller = "worker"
     /\ run.pc = "ended"
     /\ run.stoppedIn \in {"launch", "phase", "catch", "finally", "closing"})
        => (run.error # "none" /\ run.recorded # "COMPLETED")

\* ----------------------------------------------------------------- C28
\* C28: an interactive run whose caller disconnected while scrape() was
\* launching or extracting has its browser closed by close() and ends
\* with scrape() throwing, not with all boundaries passed.
C28_DisconnectCancels ==
    (/\ run.caller = "interactive"
     /\ run.pc = "ended"
     /\ run.stoppedIn \in {"launch", "phase"})
        => (run.error # "none" /\ run.step < MaxPhases)

\* ----------------------------------------------------------------- C21
\* progress writes a step of the worker's callbacks has to issue, given what
\* counts as the second record
DueWrites(second) ==
    (ext'.statusCount - ext.statusCount)
        + (IF second THEN 1 ELSE 0)
        + (ext'.examSaved - ext.examSaved)
        + (IF ext'.terminal /\ ~ext.terminal THEN 1 ELSE 0)

Records(state) == {k \in 1..Len(ext.ins) : ext.ins[k].st = state}

\* C23: the insert of a record is attempted at most 3 times; a record is
\* counted once if an attempt succeeded; after the 3rd failure one error
\* entry is logged and the counters stay; and an attempt never changes the
\* position or the outcome of the extraction run.
C23_InsertRetriedThrice ==
    /\ [](ext.caller = "worker" =>
            /\ \A k \in 1..Len(ext.ins) :
                  /\ ext.ins[k].attempts <= 3
                  /\ ext.ins[k].st = "gaveup" => ext.ins[k].attempts = 3
                  /\ ext.ins[k].st = "pending" => ext.ins[k].attempts < 3
            /\ ext.found = Cardinality(Records("saved"))
            /\ ext.errors = Cardinality(Records("gaveup")))
    /\ [][(Len(ext'.ins) = Len(ext.ins) /\ ext'.ins # ext.ins)
            => (ext'.pc = ext.pc /\ ext'.error = ext.error
                  /\ ext'.u = ext.u /\ ext'.i = ext.i /\ ext'.events = ext.events)]_vars

\* one record was saved by the third attempt, another was given up after
\* three, and the run went on to a normal end
C23_Witness ==
    /\ ext.caller = "worker"
    /\ \E k \in Records("saved") : ext.ins[k].attempts = 3
    /\ Records("gaveup") # {}
    /\ ext.found = 1 /\ ext.errors = 1
    /\ ext.pc = "ended" /\ ext.error = "none"

\* ----------------------------------------------------------------- C24
\* C24: once a worker run that succeeded is over and every record it
\* emitted has been saved, the payload stored with COMPLETED has found = the
\* number of records and no progress write came after the terminal one.
C24_TerminalPayloadComplete ==
    (/\ ext.caller = "worker"
     /\ ext.terminal /\ ext.stored.status = "COMPLETED"
     /\ ext.examPending = 0
     /\ \A k \in 1..Len(ext.ins) : ext.ins[k].st = "saved")
        => (ext.stored.found = Len(ext.ins) /\ ~ext.lateWrite)

\* ----------------------------------------------------------------- C26
\* C26: after abort() scrape() calls neither onQuestion nor onExamDone.
C26_NoEmitAfterAbort == ext.lateEmits = 0

\* ----------------------------------------------------------------- C29
EventsOf(kind, u) == {n \in DOMAIN ext.events : ext.events[n] = [k |-> kind, u |-> u]}

\* C29: every exam the run has passed that matched the environment filter
\* or the ignoredExams filter got one SKIPPED status event and neither a
\* record nor a unit-done event.
C29_SkippedUnitsReported ==
    \A u \in 1..Len(ext.kinds) :
        (u < ext.u /\ ext.kinds[u] \in {"env", "ignored"})
            => /\ Cardinality(EventsOf("SKIPPED", u)) = 1
               /\ EventsOf("record", u) = {}
               /\ EventsOf("unitDone", u) = {}

\* ----------------------------------------------------------------- C30
\* the unit-done event of exam u was called exactly once, after the records
\* of u and before every event of a later exam
UnitDoneOnce(u) ==
    /\ Cardinality(EventsOf("unitDone", u)) = 1
    /\ \A n \in EventsOf("unitDone", u) :
          /\ \A m \in EventsOf("record", u) : m < n
          /\ \A m \in DOMAIN ext.events : ext.events[m].u > u => n < m

C38_NoFreeCapacityWhileWaiting ==
    /\ [](Len(queue) > 0 => activeScrapes = MAX_CONCURRENCY)
    /\ [][\A r \in Requests :
            (rpc[r] = "new" /\ rpc'[r] = "running") => Len(queue) = 0]_vars

\* a scrape has finished while two requests were waiting: the first of them
\* was started, the other still waits with all three places taken
C38_Witness ==
    /\ Len(queue) > 0
    /\ activeScrapes = MAX_CONCURRENCY
    /\ \E r \in Requests : rpc[r] = "finished"
    /\ \E r \in Requests : rpc[r] = "running" /\ WasQueued(r)

\* ----------------------------------------------------------------- C39
\* C39: once stopWorkerLoop has run in a process, no invocation of that
\* process gets a job from fetchAndLockJob and none goes on to create and
\* run a scraper.
C39_NothingStartsAfterStop ==
    [][\A w \in Workers :
          workerInterval[process(w)] = "null" =>
              ~(wpc'[w] # wpc[w] /\ wpc'[w] \in {"fetched", "initSave"})]_vars

\* ----------------------------------------------------------------- C34
RecordCount(r) == Cardinality({n \in DOMAIN r.events : r.events[n].k = "record"})

\* C34: a question whose statement did not show up gets one forced click and
\* one more wait, never a second one; when the statement shows up then, the
\* extraction goes on as after a first success and ends with one record for
\* the question; when it does not, scrape() throws a failure without a
\* record; no step emits more than one record.
C34_OneForcedRetry ==
    /\ [](ext.reselects <= 1)
    /\ [][/\ ext'.reselects > ext.reselects
              => (ext.pc = "itemWork" /\ ext'.pc = "itemRetry")
          /\ (ext.pc = "itemRetry" /\ ext'.pc # ext.pc)
              => /\ RecordCount(ext') = RecordCount(ext)
                 /\ \/ ext'.pc = "itemImages" /\ ext'.error = "none"
                    \/ ext'.pc = "finally" /\ ext'.error # "none"
          /\ (ext.pc = "itemImages" /\ ext'.pc \in {"itemStart", "examStart"})
              => RecordCount(ext') = RecordCount(ext) + 1
          /\ RecordCount(ext') # RecordCount(ext)
              => ext.pc = "itemImages"]_vars

\* the only question of the run needed the forced click and was emitted once
C34_Witness ==
    /\ ext.reselects = 1
    /\ RecordCount(ext) = 1
    /\ ext.pc = "examStart"
    /\ ext.error = "none"

\* ----------------------------------------------------------------- C31
\* the exam of the k-th record event of the run
RecordUnit(k) == SelectSeq(ext.events, LAMBDA e : e.k = "record")[k].u

\* C31: an exam has its ScrapeHistory row written by a run only when every
\* record the run emitted for that exam has been saved.
C31_MarkedOnlyWhenAllSaved ==
    \A u \in ext.marked :
        \A k \in 1..Len(ext.ins) :
            RecordUnit(k) = u => ext.ins[k].st = "saved"

\* ----------------------------------------------------------------- C32
\* exam u is in the ignored set of the run, was skipped if the run got to
\* it, and no record was emitted for it
SkippedAsDone(u) ==
    /\ examText(u) \in ext.ignoredExams
    /\ EventsOf("record", u) = {}
    /\ (u < ext.u /\ u <= Len(ext.kinds)) => ext.kinds[u] \in {"env", "ignored"}

Metrics(r) == <<r.found, r.imported, r.skipped, r.xp>>

\* C36: inside a run no counter of state.metrics decreases, and a run
\* starts with all four at zero whatever payload its job row holds.
C36_CountersMonotonicAndReset ==
    /\ [](ext.pc = "initSave" => Metrics(ext) = <<0, 0, 0, 0>>)
    /\ [][IF ext'.runNo = ext.runNo
          THEN \A n \in 1..4 : Metrics(ext')[n] >= Metrics(ext)[n]
          ELSE Metrics(ext') = <<0, 0, 0, 0>>]_vars

\* a second run has begun on a row whose payload says found = 1
C36_Witness ==
    /\ ext.runNo = 2
    /\ ext.pc = "initSave"
    /\ ext.stored.found > 0
    /\ Metrics(ext) = <<0, 0, 0, 0>>

\* ----------------------------------------------------------------- C35
\* C35: inside a run the log stored in the job row never gets shorter: a
\* payload that reaches the row holds every entry of the payloads that
\* reached it before.
C35_StoredLogAppendOnly ==
    [][ext'.runNo = ext.runNo => ext'.stored.logs >= ext.stored.logs]_vars

\* status events of the year loop emitted for year y, as positions of events
StatusesOf(y) == {n \in DOMAIN yearLoop.events : yearLoop.events[n].y = y}

\* what the consumer of status n is given as its severity: the type of the
\* log entry (worker), the step of the status event (interactive)
Severity(n) ==
    IF yearLoop.caller = "worker"
    THEN yearLoop.logTypes[n]
    ELSE toLowerCase(yearLoop.events[n].step)

\* a step in which the re-read of the year control differs from the year
FailedVerification == yearLoop'.failed # yearLoop.failed

YearSkippedAndRunGoesOn ==
    /\ [](\A y \in yearLoop.failed : y \notin yearLoop.discovered)
    /\ [](\A y \in yearLoop.preselected : yearLoop.selects[y] = 0)
    /\ [][FailedVerification =>
            /\ yearLoop'.pc = "yearStart"
            /\ yearLoop'.y = yearLoop.y + 1
            /\ yearLoop'.error = "none"
            /\ yearLoop'.discovered = yearLoop.discovered]_vars

\* C33: when the re-read of the year control shows that the year did not
\* stick, a warning status is emitted, no exam of that year is discovered or
\* extracted, and the run goes on with the next year; a year that is
\* already selected is not selected again.
C33_WarningAndSkipToNextYear ==
    /\ [](\A y \in yearLoop.failed : \E n \in StatusesOf(y) : Severity(n) = "warning")
    /\ YearSkippedAndRunGoesOn

\* C33 (amended): as above, but the status emitted is onStatus('ERROR'),
\* which the worker stores as a log entry of type "error".
C33_ErrorStatusAndSkipToNextYear ==
    /\ [](\A y \in yearLoop.failed :
             \E n \in StatusesOf(y) : /\ yearLoop.events[n].step = "ERROR"
                                      /\ Severity(n) = "error")
    /\ YearSkippedAndRunGoesOn

\* a finished run in which a year did not stick, a later year was extracted
\* and a year was found already selected
C33_Witness ==
    /\ yearLoop.pc = "ended"
    /\ yearLoop.error = "none"
    /\ \E y \in yearLoop.failed : \E z \in yearLoop.discovered : z > y
    /\ yearLoop.preselected # {}

\* rows and reputation that call c of saveScrapedQuestion left in the tables
QuestionsOf(c) == {r \in store.questions : r.id = c}
AlternativesOf(c) == {a \in store.alternatives : a = c}
CommentsOf(c) == {m \in store.comments : m = c}
LeftNothing(c) == QuestionsOf(c) = {} /\ AlternativesOf(c) = {} /\ CommentsOf(c) = {}
Inserted == {c \in DOMAIN store.calls : store.calls[c].result = "inserted"}

\* the statements of two calls are the same record for the existence check
\* of the copy in use
SameQuestion(a, b) ==
    IF store.variant = "db"
    THEN trim(a) = trim(b) \/ generateTitle(a) = generateTitle(b)
    ELSE a = b

\* C37: a saveScrapedQuestion of a record whose earlier save is committed
\* returns the id of the existing question and adds no question,
\* alternative or comment row and no reputation; a save that fails
\* part-way leaves none of its rows and no reputation behind.
C37_SaveIdempotentAndAtomic ==
    /\ \A c \in DOMAIN store.calls :
          LET k == store.calls[c]
          IN /\ (\E b \in k.seen : store.calls[b].statement = k.statement)
                    => k.result = "existing"
             /\ k.result = "existing" =>
                    /\ k.returned \in k.seen
                    /\ QuestionsOf(k.returned) # {}
                    /\ SameQuestion(store.calls[k.returned].statement, k.statement)
                    /\ LeftNothing(c)
             /\ k.result = "failed" => LeftNothing(c)
    /\ store.reputation = 10 * Cardinality(Inserted)

\* a record saved a second time after its first save was committed, and a
\* save that failed after all its rows and the reputation were written
C37_Witness ==
    /\ \E c \in DOMAIN store.calls :
          /\ store.calls[c].result = "existing"
          /\ \E b \in store.calls[c].seen : store.calls[b].statement = store.calls[c].statement
    /\ \E c \in DOMAIN store.calls :
          /\ store.calls[c].result = "failed"
          /\ store.calls[c].undone = 10

====
